---- MODULE Spec2Model ----
(***************************************************************************)
(* Model of the towel-order parsers of eniskilic/towel_parser:             *)
(*   towel_parser.py  parse_orders_from_text  (flat line list)             *)
(*   app.py           parse_pdfs_to_df        (document text, regex split) *)
(*   main_app.py      parse_pdfs              (line-by-line state machine) *)
(* Text is modelled as TLA+ strings over ASCII; the Python string and      *)
(* regular-expression operations the parsers use are written out as        *)
(* operators on those strings.                                             *)
(***************************************************************************)
EXTENDS Integers, Sequences, FiniteSets, TLC

(***************************************************************************)
(* Python str / re primitives                                              *)
(***************************************************************************)
Digits == {"0", "1", "2", "3", "4", "5", "6", "7", "8", "9"}

UpperLetters == "ABCDEFGHIJKLMNOPQRSTUVWXYZ"

LowerLetters == "abcdefghijklmnopqrstuvwxyz"

UpperSet == {SubSeq(UpperLetters, i, i) : i \in 1..26}

LowerSet == {SubSeq(LowerLetters, i, i) : i \in 1..26}

Letters == UpperSet \cup LowerSet

\* the control characters U+000B (vertical tab) and U+001C..U+001F (file, group,
\* record and unit separator), which have no escape in a string: the strings
\* below hold the characters themselves
VT == ""

FS == ""

GS == ""

RS == ""

US == ""

\* \s of the re module and the characters of str.strip() (ASCII part)
Whitespace == {" ", "\t", "\n", "\r", "\f", VT, FS, GS, RS, US}

\* the line boundaries of str.splitlines() (ASCII part)
LineBreaks == {"\n", "\r", "\f", VT, FS, GS, RS}

\* \w of the re module (ASCII part)
WordChars == Letters \cup Digits \cup {"_"}

HexDigits == Digits \cup {"a", "b", "c", "d", "e", "f", "A", "B", "C", "D", "E", "F"}

LowerMap == [c \in UpperSet |->
               LET i == CHOOSE k \in 1..26 : SubSeq(UpperLetters, k, k) = c
               IN  SubSeq(LowerLetters, i, i)]

UpperMap == [c \in LowerSet |->
               LET i == CHOOSE k \in 1..26 : SubSeq(LowerLetters, k, k) = c
               IN  SubSeq(UpperLetters, i, i)]

DigitVal == [c \in Digits |->
               CHOOSE v \in 0..9 : SubSeq("0123456789", v + 1, v + 1) = c]

\* s[a-1:b] for 1-based inclusive bounds, clipped to the string like a slice
Sub(s, a, b) ==
    IF a > b \/ a > Len(s) \/ b < 1 THEN ""
    ELSE SubSeq(s, IF a < 1 THEN 1 ELSE a, IF b > Len(s) THEN Len(s) ELSE b)

\* s[i] (1-based); "" when i is out of range
Ch(s, i) == IF i >= 1 /\ i <= Len(s) THEN SubSeq(s, i, i) ELSE ""

\* s[i-1:] for a 1-based i
From(s, i) == Sub(s, i, Len(s))

\* "".join(pcs[lo..hi])
RECURSIVE Concat(_, _, _)
Concat(pcs, lo, hi) ==
    IF lo > hi THEN ""
    ELSE IF lo = hi THEN pcs[lo]
    ELSE LET mid == (lo + hi) \div 2
         IN  Concat(pcs, lo, mid) \o Concat(pcs, mid + 1, hi)

lower(s) ==
    Concat([k \in 1..Len(s) |->
               IF SubSeq(s, k, k) \in UpperSet THEN LowerMap[SubSeq(s, k, k)]
               ELSE SubSeq(s, k, k)], 1, Len(s))

startswith(s, p) == Len(s) >= Len(p) /\ SubSeq(s, 1, Len(p)) = p

endswith(s, p) == Len(s) >= Len(p) /\ SubSeq(s, Len(s) - Len(p) + 1, Len(s)) = p

\* startswith under re.IGNORECASE, p given in lower case
istartswith(s, p) == Len(s) >= Len(p) /\ lower(SubSeq(s, 1, Len(p))) = p

\* number of consecutive characters of set cs in s from (1-based) position i on
SpanFrom(s, i, cs) ==
    IF i > Len(s) THEN 0
    ELSE CHOOSE n \in 0..(Len(s) - i + 1) :
             /\ n = Len(s) - i + 1 \/ SubSeq(s, i + n, i + n) \notin cs
             /\ \A k \in 0..(n - 1) : SubSeq(s, i + k, i + k) \in cs

\* length of the longest prefix of s made of characters of set cs
SpanLen(s, cs) ==
    CHOOSE n \in 0..Len(s) :
        /\ n = Len(s) \/ SubSeq(s, n + 1, n + 1) \notin cs
        /\ \A k \in 1..n : SubSeq(s, k, k) \in cs

\* length of the longest suffix of s made of characters of set cs
RSpanLen(s, cs) ==
    CHOOSE n \in 0..Len(s) :
        /\ n = Len(s) \/ SubSeq(s, Len(s) - n, Len(s) - n) \notin cs
        /\ \A k \in 1..n : SubSeq(s, Len(s) - k + 1, Len(s) - k + 1) \in cs

lstrip(s) == SubSeq(s, SpanLen(s, Whitespace) + 1, Len(s))

\* s.rstrip(chars)
rstrip_chars(s, cs) == SubSeq(s, 1, Len(s) - RSpanLen(s, cs))

rstrip(s) == rstrip_chars(s, Whitespace)

strip(s) == rstrip(lstrip(s))

AllIn(s, cs) == SpanLen(s, cs) = Len(s)

\* s.find(sub, start): 1-based index of the first occurrence at or after i, 0 if none
find(s, sub, i) ==
    IF \E k \in i..(Len(s) - Len(sub) + 1) : SubSeq(s, k, k + Len(sub) - 1) = sub
    THEN CHOOSE k \in i..(Len(s) - Len(sub) + 1) :
             /\ SubSeq(s, k, k + Len(sub) - 1) = sub
             /\ \A j \in i..(k - 1) : SubSeq(s, j, j + Len(sub) - 1) # sub
    ELSE 0

contains(s, sub) == find(s, sub, 1) # 0

\* s.replace(old, new), old non-empty
RECURSIVE replace(_, _, _)
replace(s, old, new) ==
    LET at(i) == IF i = 0 THEN s
                 ELSE SubSeq(s, 1, i - 1) \o new \o replace(From(s, i + Len(old)), old, new)
    IN  at(find(s, old, 1))

\* s.split(sep): list of the pieces
RECURSIVE split(_, _)
split(s, sep) ==
    LET at(i) == IF i = 0 THEN <<s>>
                 ELSE <<SubSeq(s, 1, i - 1)>> \o split(From(s, i + Len(sep)), sep)
    IN  at(find(s, sep, 1))

\* s.split(sep, n): at most n splits
RECURSIVE splitn(_, _, _)
splitn(s, sep, n) ==
    LET at(i) == IF n = 0 \/ i = 0 THEN <<s>>
                 ELSE <<SubSeq(s, 1, i - 1)>> \o splitn(From(s, i + Len(sep)), sep, n - 1)
    IN  at(find(s, sep, 1))

\* sep.join(parts)
join(parts, sep) ==
    Concat([k \in 1..Len(parts) |->
               IF k < Len(parts) THEN parts[k] \o sep ELSE parts[k]], 1, Len(parts))

Last(seq) == seq[Len(seq)]

\* length of the longest prefix of s with no character of set cs
SpanNotIn(s, cs) ==
    CHOOSE n \in 0..Len(s) :
        /\ n = Len(s) \/ SubSeq(s, n + 1, n + 1) \in cs
        /\ \A k \in 1..n : SubSeq(s, k, k) \notin cs

\* s.splitlines(): a line ends at a character of LineBreaks, \r\n counting as
\* one boundary; no trailing empty line
RECURSIVE splitlines(_)
splitlines(s) ==
    IF s = "" THEN << >>
    ELSE LET at(n) == <<SubSeq(s, 1, n)>>
                      \o splitlines(From(s, n + (IF Sub(s, n + 1, n + 2) = "\r\n" THEN 2 ELSE 1) + 1))
         IN  at(SpanNotIn(s, LineBreaks))

Min(S) == CHOOSE x \in S : \A y \in S : x <= y

Max(S) == CHOOSE x \in S : \A y \in S : x >= y

\* lines[i] for a Python (0-based) index i
At(lines, i) == lines[i + 1]

\* int(s) for a string of decimal digits
RECURSIVE int(_)
int(s) ==
    IF s = "" THEN 0
    ELSE 10 * int(SubSeq(s, 1, Len(s) - 1)) + DigitVal[SubSeq(s, Len(s), Len(s))]

(***************************************************************************)
(* towel_parser.py                                                         *)
(***************************************************************************)
\* A regex match is the tuple of its groups; << >> is None (no match).
NoMatch == << >>

\* the first match of a scan: M maps the places tried (integers, tried in
\* ascending order) to the match found there or to NoMatch
FirstOf(M) ==
    IF \A i \in DOMAIN M : M[i] = NoMatch THEN NoMatch
    ELSE M[Min({i \in DOMAIN M : M[i] # NoMatch})]

\* \s*([cls]+) tried at position p0: <<start, length>> of the group, or NoMatch.
\* When no class character follows the whitespace, \s* gives its last character
\* back to the group if the class holds it.
ClassSpan(line, p0, cls) ==
    LET grp(p, n) == IF n >= 1 THEN <<p, n>>
                     ELSE IF p > p0 /\ SubSeq(line, p - 1, p - 1) \in cls THEN <<p - 1, 1>>
                     ELSE NoMatch
        after(p) == grp(p, SpanFrom(line, p, cls))
    IN  after(p0 + SpanFrom(line, p0, Whitespace))

\* <label>\s*([cls]+) tried at position i: the group, or NoMatch
ClassAfterLabel(line, i, label, cls) ==
    LET grp(sp) == IF sp = NoMatch THEN NoMatch
                   ELSE <<SubSeq(line, sp[1], sp[1] + sp[2] - 1)>>
    IN  grp(ClassSpan(line, i + Len(label), cls))

\* ^<label>\s*(.+)$ under re.IGNORECASE (label in lower case), applied to a
\* stripped line (no trailing whitespace, no line break inside)
LabelRest(s, label) ==
    LET grp(r) == IF r # "" THEN <<r>> ELSE NoMatch
    IN  IF istartswith(s, label) THEN grp(lstrip(From(s, Len(label) + 1))) ELSE NoMatch

\* ORDER_ID_RE.match: ^Order ID:\s*([0-9\-]+)(?:\s*Custom Order)?
tp_ORDER_ID_RE(s) ==
    IF istartswith(s, "order id:")
    THEN ClassAfterLabel(s, 1, "order id:", Digits \cup {"-"}) ELSE NoMatch

\* ^Order Date:\s*$
ORDER_DATE_RE(s) == istartswith(s, "order date:") /\ AllIn(From(s, 12), Whitespace)

\* ^Shipping Service:\s*$
SHIPPING_SERVICE_RE(s) == istartswith(s, "shipping service:") /\ AllIn(From(s, 18), Whitespace)

\* ^Ship To:\s*$
SHIP_TO_RE(s) == istartswith(s, "ship to:") /\ AllIn(From(s, 9), Whitespace)

\* ^SKU:\s*(.+)$
tp_SKU_RE(s) == LabelRest(s, "sku:")

\* ^Choose Your Font:\s*(.+)$
tp_CHOOSE_FONT_RE(s) == LabelRest(s, "choose your font:")

\* ^Font Color:\s*([A-Za-z ]+)\s*(?:\(|$) ; the group is returned stripped.  When
\* no letter follows the whitespace after the colon, \s* gives back characters
\* and the group takes spaces of that whitespace, whichever place they have in it
tp_FONT_COLOR_RE(s) ==
    LET stop(q) == q > Len(s) \/ SubSeq(s, q, q) = "("
        grp(p, n) ==
            IF n >= 1
            THEN IF stop(p + n + SpanFrom(s, p + n, Whitespace))
                 THEN <<strip(SubSeq(s, p, p + n - 1))>> ELSE NoMatch
            ELSE IF (\E j \in 12..(p - 1) : SubSeq(s, j, j) = " ") /\ stop(p)
                 THEN <<"">> ELSE NoMatch
        after(p) == grp(p, SpanFrom(s, p, Letters \cup {" "}))
    IN  IF istartswith(s, "font color:") THEN after(12 + SpanFrom(s, 12, Whitespace))
        ELSE NoMatch

\* ^\s*(\d+)\s*$
STANDALONE_QTY_RE(s) ==
    LET grp(t) == IF t # "" /\ AllIn(t, Digits) THEN <<t>> ELSE NoMatch
    IN  grp(strip(s))

\* ^Customizations:\s*$
CUSTOMIZATIONS_HEADER_RE(s) == istartswith(s, "customizations:") /\ AllIn(From(s, 16), Whitespace)

PRODUCT_MAP == <<
    [key |-> "Set-6Pcs", display |-> "6-pc Set",
     pieces |-> <<"First Washcloth", "Second Washcloth", "First Hand Towel",
                  "Second Hand Towel", "First Bath Towel", "Second Bath Towel">>],
    [key |-> "Set-3Pcs", display |-> "3-pc Set",
     pieces |-> <<"Washcloth", "Hand Towel", "Bath Towel">>],
    [key |-> "HT-2PCS", display |-> "2-pc Hand Towels",
     pieces |-> <<"First Hand Towel", "Second Hand Towel">>],
    [key |-> "HT-2Pcs", display |-> "2-pc Hand Towels",
     pieces |-> <<"First Hand Towel", "Second Hand Towel">>],
    [key |-> "BT-2Pcs", display |-> "2-pc Bath Towels",
     pieces |-> <<"First Bath Towel", "Second Bath Towel">>],
    [key |-> "BS-1Pcs", display |-> "Bath Sheet (Oversized)",
     pieces |-> <<"Oversized Bath Sheet">>] >>

\* Optional[str]: the captured identifier, or NoMatch for None
is_order_header(line) == tp_ORDER_ID_RE(strip(line))

\* truth value of an Optional[str]
Truthy(opt) == opt # NoMatch /\ opt[1] # ""

OrderDateScan == 40

ShippingScan == 40

ShipToScan == 80

ValueLookahead == 6

\* NextValue reading one line further, lines[i+1 : min(i+ValueLookahead+1, len)]
NextValue_one_more(lines, i) ==
    LET first(J) == IF J = {} THEN "" ELSE strip(At(lines, Min(J)))
    IN  first({j \in (i + 1)..(Min({i + ValueLookahead + 1, Len(lines)}) - 1) :
                  strip(At(lines, j)) # ""})

\* first non-empty stripped line among lines[i+1 : min(i+ValueLookahead, len)], else ""
NextValue(lines, i) ==
    LET first(J) == IF J = {} THEN "" ELSE strip(At(lines, Min(J)))
    IN  first({j \in (i + 1)..(Min({i + ValueLookahead, Len(lines)}) - 1) :
                  strip(At(lines, j)) # ""})

parse_order_date(lines, start_idx) ==
    LET first(I) == IF I = {} THEN "" ELSE rstrip_chars(NextValue(lines, Min(I)), {","})
    IN  first({i \in start_idx..(Min({start_idx + OrderDateScan, Len(lines)}) - 1) :
                  ORDER_DATE_RE(strip(At(lines, i)))})

parse_shipping_service(lines, start_idx) ==
    LET first(I) == IF I = {} THEN "" ELSE NextValue(lines, Min(I))
    IN  first({i \in start_idx..(Min({start_idx + ShippingScan, Len(lines)}) - 1) :
                  SHIPPING_SERVICE_RE(strip(At(lines, i)))})

parse_buyer_full_name(lines, start_idx) ==
    LET first(I) == IF I = {} THEN "" ELSE NextValue(lines, Min(I))
    IN  first({i \in start_idx..(Min({start_idx + ShipToScan, Len(lines)}) - 1) :
                  SHIP_TO_RE(strip(At(lines, i)))})

\* indices (0-based, ascending) of the lines for which is_order_header is truthy
RECURSIVE order_headers(_, _)
order_headers(lines, i) ==
    IF i >= Len(lines) THEN << >>
    ELSE (IF Truthy(is_order_header(At(lines, i))) THEN <<i>> ELSE << >>)
         \o order_headers(lines, i + 1)

\* split_orders with every span running to the end of the document
split_orders_to_end(lines) ==
    LET spans(headers) == [idx \in 1..Len(headers) |-> <<headers[idx], Len(lines)>>]
    IN  spans(order_headers(lines, 0))

\* list of (start, end_exclusive) spans, 0-based
split_orders(lines) ==
    LET spans(headers) ==
            [idx \in 1..Len(headers) |->
                <<headers[idx], IF idx < Len(headers) THEN headers[idx + 1] ELSE Len(lines)>>]
    IN  spans(order_headers(lines, 0))

parse_sku_color(sku_line) ==
    LET \* "-".join(parts[:2]) for the known families, "-".join(parts[:-1]) otherwise
        product(sku, parts) ==
            IF \E p \in {"Set", "HT", "BT", "BS"} : startswith(sku, p)
            THEN join(SubSeq(parts, 1, Min({Len(parts), 2})), "-")
            ELSE join(SubSeq(parts, 1, Len(parts) - 1), "-")
        \* "BT-2Pcs-MidBlue vs BT-2Pcs-Mid Blue": re.match(r"^[A-Za-z]+Blue$", color)
        blue(c) ==
            IF c # "" /\ AllIn(c, Letters) /\ endswith(c, "Blue") /\ Len(c) >= 5
            THEN replace(c, "Blue", " Blue") ELSE c
        \* "remove leading subtype like 3Pcs- inside the remainder if any"
        subtype(prod, c, code) ==
            IF prod = "Set-" \o code /\ startswith(c, code \o "-")
            THEN Last(splitn(c, "-", 1)) ELSE c
        color(sku, prod, c) ==
            IF startswith(prod, "Set-")
            THEN subtype(prod,
                         subtype(prod,
                                 IF startswith(sku, "Set-") THEN Last(splitn(sku, "-", 2)) ELSE c,
                                 "6Pcs"),
                         "3Pcs")
            ELSE c
        hyphened(sku, parts) ==
            <<product(sku, parts),
              strip(color(sku, product(sku, parts),
                          blue(replace(replace(Last(parts), "_", " "), "Grey", "Gray"))))>>
        parsed(sku) == IF contains(sku, "-") THEN hyphened(sku, split(sku, "-")) ELSE <<sku, "">>
    IN  parsed(strip(sku_line))

\* (display, pieces) of the first PRODUCT_MAP key the product code starts with
guess_product_type(product) ==
    LET first(K) == IF K = {} THEN <<"Monogram Towels", << >> >>
                    ELSE <<PRODUCT_MAP[Min(K)].display, PRODUCT_MAP[Min(K)].pieces>>
    IN  first({k \in 1..Len(PRODUCT_MAP) : startswith(product, PRODUCT_MAP[k].key)})

QtyLookback == 10

\* find_quantity_near looking back over 15 lines
find_quantity_near_15(lines, idx) ==
    LET nearest(J) == IF J = {} THEN 1 ELSE int(STANDALONE_QTY_RE(At(lines, Max(J)))[1])
    IN  nearest({j \in Max({idx - 15, 0})..(idx - 1) :
                    STANDALONE_QTY_RE(At(lines, j)) # NoMatch})

find_quantity_near(lines, idx) ==
    LET nearest(J) == IF J = {} THEN 1 ELSE int(STANDALONE_QTY_RE(At(lines, Max(J)))[1])
    IN  nearest({j \in Max({idx - QtyLookback, 0})..(idx - 1) :
                    STANDALONE_QTY_RE(At(lines, j)) # NoMatch})

\* dict item assignment d[k] = v on a dict kept as a sequence of <<key, value>>
\* pairs in insertion order
DictSet(d, k, v) ==
    IF \E n \in 1..Len(d) : d[n][1] = k
    THEN [n \in 1..Len(d) |-> IF d[n][1] = k THEN <<k, v>> ELSE d[n]]
    ELSE Append(d, <<k, v>>)

MonogramPieceKeys ==
    {"first hand towel", "second hand towel", "first bath towel", "second bath towel",
     "washcloth", "hand towel", "bath towel", "oversized bath sheet"}

CustomGapLimit == 25

\* p.split()[0]: the first whitespace-separated word of a piece name
FirstWord(p) ==
    LET word(t) == SubSeq(t, 1, SpanNotIn(t, Whitespace))
    IN  word(lstrip(p))

\* the while loop of parse_customizations from index i on, with the values
\* gathered so far; returns <<font, thread, custom>>
RECURSIVE customizations_loop(_, _, _, _, _, _, _)
customizations_loop(lines, start_idx, expected_pieces, i, font, thread, custom) ==
    LET next(f, t, c) == customizations_loop(lines, start_idx, expected_pieces, i + 1, f, t, c)
        keep(key) ==
            IF expected_pieces # << >>
            THEN \E n \in 1..Len(expected_pieces) :
                    \/ key = expected_pieces[n]
                    \/ endswith(key, FirstWord(expected_pieces[n]))
            ELSE lower(key) \in MonogramPieceKeys
        \* key, val = ln.split(":", 1)
        piece(kv) ==
            next(font, thread,
                 IF keep(strip(kv[1])) THEN DictSet(custom, strip(kv[1]), strip(kv[2]))
                 ELSE custom)
        other(ln) ==
            IF contains(ln, ":") THEN piece(splitn(ln, ":", 1)) ELSE next(font, thread, custom)
        font_color(ln, m) ==
            IF m # NoMatch THEN next(font, strip(m[1]), custom) ELSE other(ln)
        choose_font(ln, m) ==
            IF m # NoMatch THEN next(strip(m[1]), thread, custom)
            ELSE font_color(ln, tp_FONT_COLOR_RE(ln))
        line(ln) ==
            IF ln = ""
            THEN IF i - start_idx > CustomGapLimit THEN <<font, thread, custom>>
                 ELSE next(font, thread, custom)
            ELSE IF tp_ORDER_ID_RE(ln) # NoMatch \/ tp_SKU_RE(ln) # NoMatch
            THEN <<font, thread, custom>>
            ELSE choose_font(ln, tp_CHOOSE_FONT_RE(ln))
    IN  IF i >= Len(lines) THEN <<font, thread, custom>> ELSE line(strip(At(lines, i)))

parse_customizations(lines, start_idx, product_display, expected_pieces) ==
    customizations_loop(lines, start_idx, expected_pieces, start_idx, "", "", << >>)

CustomSearch == 40

\* "Find the nearest Customizations: after this SKU line": the result of
\* parse_customizations at the first header among lines[i : min(i+40, end)],
\* or the empty defaults
tp_customizations(lines, end, i, pt) ==
    LET first(J) == IF J = {} THEN <<"", "", << >> >>
                    ELSE parse_customizations(lines, Min(J) + 1, pt[1], pt[2])
    IN  first({j \in i..(Min({i + CustomSearch, end}) - 1) :
                  CUSTOMIZATIONS_HEADER_RE(strip(At(lines, j)))})

\* the LineItem built for the SKU line at index i of the order span (start, end)
tp_line_item(lines, start, end, i) ==
    LET item(order_id, sku_raw, pc, pt, cust) ==
            [order_id         |-> IF Truthy(order_id) THEN order_id[1] ELSE "",
             order_date       |-> parse_order_date(lines, start),
             shipping_service |-> parse_shipping_service(lines, start),
             buyer_full_name  |-> parse_buyer_full_name(lines, start),
             sku              |-> sku_raw,
             product_type     |-> pt[1],
             color            |-> pc[2],
             quantity         |-> find_quantity_near(lines, i),
             font             |-> cust[1],
             thread_color     |-> cust[2],
             customization    |-> cust[3]]
        typed(sku_raw, pc, pt) ==
            item(is_order_header(At(lines, start)), sku_raw, pc, pt,
                 tp_customizations(lines, end, i, pt))
        coloured(sku_raw, pc) == typed(sku_raw, pc, guess_product_type(pc[1]))
        found(sku_raw) == coloured(sku_raw, parse_sku_color(sku_raw))
    IN  found(strip(tp_SKU_RE(strip(At(lines, i)))[1]))

\* the items of one order span: one per line of the span matching SKU_RE
RECURSIVE tp_span_items(_, _, _, _)
tp_span_items(lines, start, end, i) ==
    IF i >= end THEN << >>
    ELSE (IF tp_SKU_RE(strip(At(lines, i))) # NoMatch
          THEN <<tp_line_item(lines, start, end, i)>> ELSE << >>)
         \o tp_span_items(lines, start, end, i + 1)

RECURSIVE tp_orders_items(_, _, _)
tp_orders_items(lines, spans, n) ==
    IF n > Len(spans) THEN << >>
    ELSE tp_span_items(lines, spans[n][1], spans[n][2], spans[n][1])
         \o tp_orders_items(lines, spans, n + 1)

parse_orders_from_text(lines) == tp_orders_items(lines, split_orders(lines), 1)

(***************************************************************************)
(* app.py                                                                  *)
(***************************************************************************)
\* English -> Spanish thread colours, as <<key, value>> pairs.  The source has
\* "Marrón" for Brown; the accented letter is written "o" here (ASCII strings).
COLOR_ES == <<
    <<"White", "Blanco">>, <<"Black", "Negro">>, <<"Gold", "Dorado">>,
    <<"Silver", "Plateado">>, <<"Red", "Rojo">>, <<"Blue", "Azul">>,
    <<"Navy", "Azul Marino">>, <<"Light Blue", "Azul Claro">>, <<"Green", "Verde">>,
    <<"Pink", "Rosa">>, <<"Hot Pink", "Rosa Fucsia">>, <<"Lilac", "Lila">>,
    <<"Purple", "Morado">>, <<"Yellow", "Amarillo">>, <<"Beige", "Beige">>,
    <<"Brown", "Marron">>, <<"Gray", "Gris">>, <<"Grey", "Gris">>,
    <<"Orange", "Naranja">>, <<"Mid Blue", "Azul Medio">>,
    <<"Light Grey", "Gris Claro">>, <<"Aqua", "Aguamarina">> >>

SKU_TYPE_MAP == <<
    <<"Set-3Pcs", "3-Piece Towel Set">>,
    <<"Set-6Pcs", "6-Piece Towel Set">>,
    <<"HT-2Pcs", "2-Piece Hand Towel Set">>,
    <<"BT-2Pcs", "2-Piece Bath Towel Set">>,
    <<"BS-1Pcs", "Oversized Bath Sheet">> >>

CUST_KEYS == <<
    "Washcloth:", "Hand Towel:", "Bath Towel:", "Oversized Bath Sheet:", "Guest Towel:",
    "First Washcloth:", "Second Washcloth:",
    "First Hand Towel:", "Second Hand Towel:",
    "First Bath Towel:", "Second Bath Towel:" >>

\* d.get(k, default) on a dict kept as <<key, value>> pairs
DictGetOr(d, k, default) ==
    IF \E n \in 1..Len(d) : d[n][1] = k
    THEN d[CHOOSE n \in 1..Len(d) : d[n][1] = k][2]
    ELSE default

\* (product type, towel colour) of a SKU; re.split(r"[-–]") splits on "-"
\* (the en dash is outside the ASCII strings of the model)
derive_type_and_color_from_sku(sku) ==
    LET s      == strip(sku)
        parts  == split(s, "-")
        raw    == parts[1] \o "-" \o parts[2]
        prefix == replace(replace(raw, "2PCS", "2Pcs"), "1PCS", "1Pcs")
    IN  IF sku = "" \/ Len(parts) < 2 THEN <<"", "">>
        ELSE <<DictGetOr(SKU_TYPE_MAP, prefix, prefix),
               IF Len(s) > Len(prefix) + 1 THEN strip(From(s, Len(prefix) + 2)) ELSE "">>

\* whether \(#[0-9a-fA-F]{3,8}\) matches at (1-based) position i; its length or 0
HexTagLen(s, i) ==
    LET h == SpanLen(From(s, i + 2), HexDigits)
    IN  IF Sub(s, i, i + 1) = "(#" /\ h >= 3 /\ h <= 8 /\ Ch(s, i + 2 + h) = ")"
        THEN h + 3 ELSE 0

\* re.sub(r"\(#[0-9a-fA-F]{3,8}\)", "", s)
\* (two tags cannot overlap: a tag holds no "(" after its first character)
sub_hex_tags(s) ==
    Concat([k \in 1..Len(s) |->
               IF \E i \in 1..k : HexTagLen(s, i) > 0 /\ k < i + HexTagLen(s, i)
               THEN "" ELSE Sub(s, k, k)], 1, Len(s))

translate_thread_color(raw) ==
    LET base == strip(sub_hex_tags(raw))
        es   == DictGetOr(COLOR_ES, base, base)
    IN  IF raw = "" THEN "" ELSE es \o " (" \o base \o ")"

\* text after the first ':' of the first line that starts with the key
\* (case-insensitively), "" when no line does
find_field_value(lines, startswith_key) ==
    LET k == lower(strip(startswith_key))
        N == {n \in 1..Len(lines) : istartswith(strip(lines[n]), k)}
    IN  IF N = {} THEN "" ELSE strip(Last(splitn(strip(lines[Min(N)]), ":", 1)))

\* the display line of a stripped line s, as a list of zero or one element
customization_line(s) ==
    LET K == {n \in 1..Len(CUST_KEYS) : startswith(s, CUST_KEYS[n])}
        key      == CUST_KEYS[Min(K)]
        value    == strip(Last(splitn(s, ":", 1)))
        disp_key == strip(replace(replace(key, "First ", ""), "Second ", ""))
    IN  IF K = {} THEN << >>
        ELSE IF value # "" THEN <<disp_key \o " " \o value>>
        ELSE <<rstrip_chars(disp_key, {":"})>>

RECURSIVE collect_customization_lines(_)
collect_customization_lines(lines) ==
    IF lines = << >> THEN << >>
    ELSE customization_line(strip(lines[1])) \o collect_customization_lines(Tail(lines))

\* \d{3}-\d{7}-\d{7} matches at (1-based) position i of s
OrderIdAt(s, i) ==
    /\ i + 18 <= Len(s)
    /\ AllIn(Sub(s, i, i + 2), Digits)
    /\ Ch(s, i + 3) = "-"
    /\ AllIn(Sub(s, i + 4, i + 10), Digits)
    /\ Ch(s, i + 11) = "-"
    /\ AllIn(Sub(s, i + 12, i + 18), Digits)

\* Order ID:\s*\d{3}-\d{7}-\d{7} matches at position i of s; the position of
\* the identifier, or 0
OrderAnchorAt(s, i) ==
    LET j == i + 9 + SpanLen(From(s, i + 9), Whitespace)
    IN  IF Sub(s, i, i + 8) = "Order ID:" /\ OrderIdAt(s, j) THEN j ELSE 0

\* a finite set of integers as an ascending sequence
RECURSIVE Sorted(_)
Sorted(S) == IF S = {} THEN << >> ELSE <<Min(S)>> \o Sorted(S \ {Min(S)})

\* re.split on a zero-width pattern that matches at the positions P (1-based):
\* the pieces between the cuts, the (possibly empty) piece before the first included
SplitAt(s, P) ==
    LET cuts == Sorted(P)
    IN  [k \in 1..(Len(cuts) + 1) |->
            Sub(s, IF k = 1 THEN 1 ELSE cuts[k - 1],
                   IF k = Len(cuts) + 1 THEN Len(s) ELSE cuts[k] - 1)]

\* [f(x) for x in seq if x.strip()] with f = strip or identity
RECURSIVE NonBlank(_, _)
NonBlank(seq, stripped) ==
    IF seq = << >> THEN << >>
    ELSE (IF strip(seq[1]) # "" THEN <<IF stripped THEN strip(seq[1]) ELSE seq[1]>> ELSE << >>)
         \o NonBlank(Tail(seq), stripped)

slice_blocks_by_order_id(text) ==
    NonBlank(SplitAt(text, {i \in 1..Len(text) : OrderAnchorAt(text, i) # 0}), TRUE)

\* re.search(r"\bQuantity\s+(\d+)", text, re.IGNORECASE): the group, or NoMatch
QuantitySearch(text) ==
    LET ok(i) == /\ Ch(text, i) \in {"Q", "q"}
                 /\ lower(Sub(text, i, i + 7)) = "quantity"
                 /\ Ch(text, i - 1) \notin WordChars
                 /\ Ch(text, i + 8) \in Whitespace
                 /\ Ch(text, i + 8 + SpanLen(From(text, i + 8), Whitespace)) \in Digits
        I == {i \in 1..Len(text) : ok(i)}
        j == Min(I) + 8 + SpanLen(From(text, Min(I) + 8), Whitespace)
    IN  IF I = {} THEN NoMatch ELSE <<Sub(text, j, j + SpanLen(From(text, j), Digits) - 1)>>

detect_quantity(chunk_text, fallback_block_text) ==
    LET m == IF QuantitySearch(chunk_text) # NoMatch THEN QuantitySearch(chunk_text)
             ELSE QuantitySearch(fallback_block_text)
    IN  IF m # NoMatch THEN int(m[1]) ELSE 1

\* "Gift Message" is preferred, "Gift Bag" accepted as an alternative marker
gift_message(lines) ==
    IF find_field_value(lines, "Gift Message") # ""
    THEN "Gift Message: " \o find_field_value(lines, "Gift Message")
    ELSE IF find_field_value(lines, "Gift Bag") # ""
    THEN "Gift Bag: " \o find_field_value(lines, "Gift Bag")
    ELSE ""

\* the record of one SKU chunk of a block, as a list of zero or one element
app_chunk_item(ch, block, source_name) ==
    LET lines    == NonBlank(splitlines(block), FALSE)
        ch_lines == NonBlank(splitlines(ch), FALSE)
        sku      == find_field_value(ch_lines, "SKU")
        font1    == find_field_value(ch_lines, "Choose Your Font")
        font     == IF font1 # "" THEN font1 ELSE find_field_value(ch_lines, "Embroidery Font")
        raw1     == find_field_value(ch_lines, "Font Color")
        thread_color_raw == IF raw1 # "" THEN raw1 ELSE find_field_value(ch_lines, "Thread Color")
        tc       == derive_type_and_color_from_sku(sku)
    IN  IF ~contains(ch, "SKU:") \/ sku = "" THEN << >>
        ELSE << [Order_ID            |-> find_field_value(lines, "Order ID"),
                 Buyer_Name          |-> find_field_value(lines, "Buyer Name"),
                 SKU                 |-> sku,
                 Product_Type        |-> tc[1],
                 Towel_Color         |-> tc[2],
                 Font                |-> font,
                 Thread_Color        |-> IF thread_color_raw # ""
                                         THEN translate_thread_color(thread_color_raw) ELSE "",
                 Customization_Lines |-> collect_customization_lines(ch_lines),
                 Quantity            |-> detect_quantity(ch, block),
                 Gift_Message        |-> gift_message(lines),
                 Source_File         |-> source_name] >>

RECURSIVE app_chunk_items(_, _, _)
app_chunk_items(chunks, block, source_name) ==
    IF chunks = << >> THEN << >>
    ELSE app_chunk_item(chunks[1], block, source_name)
         \o app_chunk_items(Tail(chunks), block, source_name)

\* chunks = re.split(r"(?=SKU:\s*)", block)
extract_items_from_block(block, source_name) ==
    app_chunk_items(SplitAt(block, {i \in 1..Len(block) : Sub(block, i, i + 3) = "SKU:"}),
                    block, source_name)

RECURSIVE app_block_items(_, _)
app_block_items(blocks, source_name) ==
    IF blocks = << >> THEN << >>
    ELSE extract_items_from_block(blocks[1], source_name)
         \o app_block_items(Tail(blocks), source_name)

\* df["Order ID"].str.contains(r"\d{3}-\d{7}-\d{7}")
order_id_mask(order_id) == \E i \in 1..Len(order_id) : OrderIdAt(order_id, i)

\* one uploaded file: its text is the pages' texts joined by "\n"
app_file_records(f) ==
    app_block_items(slice_blocks_by_order_id(join(f.pages, "\n")), f.name)

RECURSIVE app_records(_)
app_records(fs) ==
    IF fs = << >> THEN << >>
    ELSE app_file_records(fs[1]) \o app_records(Tail(fs))

\* the rows of the DataFrame returned: the records whose Order ID passes the mask
parse_pdfs_to_df(fs) ==
    SelectSeq(app_records(fs), LAMBDA r : order_id_mask(r.Order_ID))

(***************************************************************************)
(* main_app.py                                                             *)
(***************************************************************************)
\* The source has "Marrón" and "Champán"; written without accents here.
THREAD_COLOR_ES == <<
    <<"White", "Blanco">>, <<"Black", "Negro">>, <<"Gold", "Dorado">>, <<"Silver", "Plateado">>,
    <<"Red", "Rojo">>, <<"Blue", "Azul">>, <<"Navy", "Azul Marino">>, <<"Light Blue", "Azul Claro">>,
    <<"Green", "Verde">>, <<"Pink", "Rosa">>, <<"Hot Pink", "Rosa Fucsia">>, <<"Lilac", "Lila">>,
    <<"Purple", "Morado">>, <<"Yellow", "Amarillo">>, <<"Beige", "Beige">>, <<"Brown", "Marron">>,
    <<"Gray", "Gris">>, <<"Grey", "Gris">>, <<"Orange", "Naranja">>, <<"Champagne", "Champan">>,
    <<"Dark Grey", "Gris Oscuro">>, <<"Aqua", "Aguamarina">>, <<"Mid Blue", "Azul Medio">> >>

product_map == <<
    <<"Set-6Pcs", "6-Piece Towel Set">>,
    <<"Set-3Pcs", "3-Piece Towel Set">>,
    <<"HT-2Pcs", "Hand Towel Set (2 pcs)">>,
    <<"BT-2Pcs", "Bath Towel Set (2 pcs)">>,
    <<"BS-1Pcs", "Bath Sheet (1 pc)">>,
    <<"HT", "Hand Towel Set (2 pcs)">>,
    <<"BT", "Bath Towel Set (2 pcs)">>,
    <<"BS", "Bath Sheet (1 pc)">> >>

\* str.title(): a letter is upper-cased after a non-letter and lower-cased after a letter
title(s) ==
    Concat([k \in 1..Len(s) |->
               IF SubSeq(s, k, k) \in LowerSet /\ Ch(s, k - 1) \notin Letters
               THEN UpperMap[SubSeq(s, k, k)]
               ELSE IF SubSeq(s, k, k) \in UpperSet /\ Ch(s, k - 1) \in Letters
               THEN LowerMap[SubSeq(s, k, k)]
               ELSE SubSeq(s, k, k)], 1, Len(s))

\* re.sub(r"\s+", " ", txt): every run of whitespace becomes one space
collapse_ws(s) ==
    Concat([k \in 1..Len(s) |->
               IF SubSeq(s, k, k) \notin Whitespace THEN SubSeq(s, k, k)
               ELSE IF Ch(s, k - 1) \in Whitespace THEN "" ELSE " "], 1, Len(s))

clean_text(txt) == strip(collapse_ws(txt))

derive_product_type_and_color(sku) ==
    LET prefix(parts) ==
            IF Len(parts) >= 2
            THEN IF parts[1] \in {"HT", "BT"} THEN parts[1] \o "-" \o parts[2] ELSE parts[1]
            ELSE sku
        color(parts) == IF Len(parts) >= 2 THEN Last(parts) ELSE ""
        result(parts) ==
            <<DictGetOr(product_map, prefix(parts), prefix(parts)),
              replace(replace(color(parts), "_", " "), "MidBlue", "Mid Blue")>>
    IN  result(split(sku, "-"))

es_color(name) == DictGetOr(THREAD_COLOR_ES, title(strip(name)), name)

\* the positions (1-based) at which sub occurs in s
Occurrences(s, sub) ==
    {i \in 1..(Len(s) - Len(sub) + 1) : SubSeq(s, i, i + Len(sub) - 1) = sub}

\* ORDER_ID_RE.search: Order ID:\s*(\d{3}-\d{7}-\d{7})
main_ORDER_ID_RE(line) ==
    LET grp(j) == IF j = 0 THEN NoMatch ELSE <<SubSeq(line, j, j + 18)>>
    IN  FirstOf([i \in Occurrences(line, "Order ID:") |-> grp(OrderAnchorAt(line, i))])

BuyerChars == Letters \cup Digits \cup Whitespace \cup {".", "'", "-", "&"}

\* BUYER_NAME_RE.search: Buyer Name:\s*([A-Za-z0-9\s\.'\-&]+)
BUYER_NAME_RE(line) ==
    FirstOf([i \in Occurrences(line, "Buyer Name:") |->
                ClassAfterLabel(line, i, "Buyer Name:", BuyerChars)])

\* SKU_RE.search: SKU:\s*([A-Za-z0-9\-]+)
main_SKU_RE(line) ==
    FirstOf([i \in Occurrences(line, "SKU:") |->
                ClassAfterLabel(line, i, "SKU:", Letters \cup Digits \cup {"-"})])

FontChars == Letters \cup Digits \cup Whitespace \cup {"-", ".", "_", "&"}

\* CHOOSE_FONT_RE.search: Choose Your Font:\s*([A-Za-z0-9\s\-\._&]+)
main_CHOOSE_FONT_RE(line) ==
    FirstOf([i \in Occurrences(line, "Choose Your Font:") |->
                ClassAfterLabel(line, i, "Choose Your Font:", FontChars)])

\* Font Color:\s*([A-Za-z\s]+)\s*\(#?[A-Fa-f0-9]{0,8}\)? tried at position i:
\* the name must be followed by "("
FontColorAt(line, i) ==
    LET grp(sp) == IF sp = NoMatch THEN NoMatch
                   ELSE IF Ch(line, sp[1] + sp[2]) # "(" THEN NoMatch
                   ELSE <<SubSeq(line, sp[1], sp[1] + sp[2] - 1)>>
    IN  grp(ClassSpan(line, i + 11, Letters \cup Whitespace))

\* FONT_COLOR_RE.search
main_FONT_COLOR_RE(line) ==
    FirstOf([i \in Occurrences(line, "Font Color:") |-> FontColorAt(line, i)])

CustomPieceNames == <<
    "Washcloth", "Hand Towel", "First Hand Towel", "Second Hand Towel", "Bath Towel",
    "First Bath Towel", "Second Bath Towel", "First Washcloth", "Second Washcloth",
    "Oversized Bath Sheet" >>

\* \s*:\s*(.+) tried at position p of a cleaned line: the group, or NoMatch.
\* When nothing follows the whitespace after the colon, \s* gives its last
\* character back to the group.
ColonRest(line, p) ==
    LET val(q, v) == IF v <= Len(line) THEN <<SubSeq(line, v, Len(line))>>
                     ELSE IF v > q THEN <<SubSeq(line, v - 1, v - 1)>>
                     ELSE NoMatch
        value(q) == val(q, q + SpanFrom(line, q, Whitespace))
        colon(c) == IF Ch(line, c) = ":" THEN value(c + 1) ELSE NoMatch
    IN  colon(p + SpanFrom(line, p, Whitespace))

\* ^(<piece>)\s*:\s*(.+)$ for one piece name, on a cleaned line
CustomLineFor(line, piece) ==
    LET grp(m) == IF m = NoMatch THEN NoMatch ELSE <<piece, m[1]>>
    IN  IF startswith(line, piece) THEN grp(ColonRest(line, Len(piece) + 1)) ELSE NoMatch

\* CUSTOM_LINE_RE.match: the first alternative that matches
CUSTOM_LINE_RE(line) ==
    FirstOf([k \in 1..Len(CustomPieceNames) |-> CustomLineFor(line, CustomPieceNames[k])])

\* (?i)Gift\s*(Message|Card|Bag)\s*:\s*(.+) tried at position i: group 2, or NoMatch
GiftAt(line, i) ==
    LET word(p, W) == IF W = {} THEN NoMatch
                      ELSE ColonRest(line, p + Len(CHOOSE x \in W : TRUE))
        kind(p) == word(p, {x \in {"message", "card", "bag"} : istartswith(From(line, p), x)})
    IN  IF lower(Sub(line, i, i + 3)) = "gift"
        THEN kind(i + 4 + SpanFrom(line, i + 4, Whitespace)) ELSE NoMatch

\* GIFT_MSG_RE.search
GIFT_MSG_RE(line) == FirstOf([i \in 1..Len(line) |-> GiftAt(line, i)])

LeadingWords == {"Personalized", "ViaDante", "Monogrammed", "Set of", "Hand Towel", "Bath Towel", "Bath Sheet"}

\* LEADING_QTY_RE.match: ^(\d+)\s+(Personalized|ViaDante|...): group 1, or NoMatch
LEADING_QTY_RE(line) ==
    LET word(n, w) ==
            IF n >= 1 /\ w >= 1 /\ \E x \in LeadingWords : startswith(From(line, n + w + 1), x)
            THEN <<SubSeq(line, 1, n)>> ELSE NoMatch
        space(n) == word(n, SpanFrom(line, n + 1, Whitespace))
    IN  space(SpanFrom(line, 1, Digits))

\* None for the Optional[str] state of parse_pdfs; the stored strings are
\* stripped regex groups, so none of them equals this value
None == " None "

\* the value of a string key that item_ctx does not hold (a key held with the
\* value None is another case: .get(key, default) gives None for it)
Absent == " absent "

\* None for the Optional[int] leading quantity and for an absent "quantity" key
NoneInt == -1

\* item_ctx = {"custom_lines": []}: the keys not set yet are absent
EmptyCtx ==
    [custom_lines |-> << >>, order_id |-> Absent, buyer_name |-> Absent, sku |-> Absent,
     quantity |-> NoneInt, font |-> Absent, thread_color |-> Absent, gift_message |-> Absent]

\* item_ctx.get(key, default)
CtxGet(item_ctx, key, default) == IF item_ctx[key] = Absent THEN default ELSE item_ctx[key]

\* item_ctx.get("quantity", 1)
CtxQuantity(item_ctx) == IF item_ctx.quantity = NoneInt THEN 1 ELSE item_ctx.quantity

RECURSIVE clean_each(_)
clean_each(xs) == IF xs = << >> THEN << >> ELSE <<clean_text(xs[1])>> \o clean_each(Tail(xs))

\* the rows appended by flush_item_if_ready(item_ctx): none or one ParsedItem
flush_item_if_ready(item_ctx, source_name) ==
    LET row(tc, thread_en) ==
            [order_id        |-> CtxGet(item_ctx, "order_id", ""),
             buyer_name      |-> CtxGet(item_ctx, "buyer_name", ""),
             sku             |-> item_ctx.sku,
             product_type    |-> tc[1],
             color           |-> tc[2],
             thread_color_en |-> thread_en,
             thread_color_es |-> IF thread_en # "" THEN es_color(thread_en) ELSE "",
             customization   |-> join(clean_each(item_ctx.custom_lines), " / "),
             font            |-> CtxGet(item_ctx, "font", ""),
             quantity        |-> CtxQuantity(item_ctx),
             gift_message    |-> CtxGet(item_ctx, "gift_message", ""),
             source_file     |-> source_name]
    IN  IF item_ctx.sku = Absent \/ item_ctx.sku = "" THEN << >>
        ELSE <<row(derive_product_type_and_color(item_ctx.sku),
                   CtxGet(item_ctx, "thread_color", ""))>>

\* the per-file parser state at the start of a file
MainStart ==
    [current_order_id |-> None, current_buyer |-> "", leading_qty_for_next_item |-> NoneInt,
     item_ctx |-> EmptyCtx, parsed_rows |-> << >>]

\* lines = [clean_text(x) for x in text.split("\n") if clean_text(x)]
RECURSIVE clean_lines(_)
clean_lines(xs) ==
    IF xs = << >> THEN << >>
    ELSE (IF clean_text(xs[1]) # "" THEN <<clean_text(xs[1])>> ELSE << >>) \o clean_lines(Tail(xs))

\* "Detect if this page starts a new order": the first line of the page with an
\* order identifier flushes the pending item and opens the order
main_page_order(st, lines, source_name) ==
    LET open(m) ==
            IF m = NoMatch THEN st
            ELSE [st EXCEPT !.parsed_rows = @ \o flush_item_if_ready(st.item_ctx, source_name),
                            !.item_ctx = [EmptyCtx EXCEPT !.order_id = m[1],
                                                          !.buyer_name = st.current_buyer],
                            !.current_order_id = m[1],
                            !.leading_qty_for_next_item = NoneInt]
    IN  open(FirstOf([n \in 1..Len(lines) |-> main_ORDER_ID_RE(lines[n])]))

\* the body of "for line in lines", one line; the checks run in source order,
\* each on the state the checks before it left (m is the check's match)
main_line(st, line, source_name) ==
    LET buyer(s, m) ==
            IF m # NoMatch
            THEN [s EXCEPT !.current_buyer = strip(m[1]),
                           !.item_ctx.buyer_name = strip(m[1])]
            ELSE s
        gift(s, m) ==
            IF m # NoMatch THEN [s EXCEPT !.item_ctx.gift_message = strip(m[1])] ELSE s
        leading_qty(s, m) ==
            IF m # NoMatch THEN [s EXCEPT !.leading_qty_for_next_item = int(m[1])] ELSE s
        \* "if we already have an item in progress, flush it"
        flushed(s) ==
            IF s.item_ctx.sku # Absent /\ s.item_ctx.sku # ""
            THEN [s EXCEPT !.parsed_rows = @ \o flush_item_if_ready(s.item_ctx, source_name),
                           !.item_ctx = [EmptyCtx EXCEPT !.order_id = s.current_order_id,
                                                         !.buyer_name = s.current_buyer]]
            ELSE s
        use_qty(s) == s.leading_qty_for_next_item # NoneInt /\ s.leading_qty_for_next_item # 0
        started(s, m) ==
            [s EXCEPT !.item_ctx.sku = strip(m[1]),
                      !.item_ctx.quantity =
                          IF use_qty(s) THEN s.leading_qty_for_next_item ELSE 1,
                      !.leading_qty_for_next_item = IF use_qty(s) THEN NoneInt ELSE @]
        sku(s, m) == IF m # NoMatch THEN started(flushed(s), m) ELSE s
        font(s, m) == IF m # NoMatch THEN [s EXCEPT !.item_ctx.font = strip(m[1])] ELSE s
        color(s, m) ==
            IF m # NoMatch THEN [s EXCEPT !.item_ctx.thread_color = strip(m[1])] ELSE s
        skip(val) == \E x \in {"item subtotal", "promotion", "tax", "grand total"} :
                         startswith(lower(val), x)
        custom(s, m) ==
            IF m # NoMatch /\ strip(m[2]) # "" /\ ~skip(strip(m[2]))
            THEN [s EXCEPT !.item_ctx.custom_lines = Append(@, m[1] \o ": " \o strip(m[2]))]
            ELSE s
    IN  custom(color(font(sku(leading_qty(gift(buyer(st, BUYER_NAME_RE(line)),
                                                GIFT_MSG_RE(line)),
                                           LEADING_QTY_RE(line)),
                              main_SKU_RE(line)),
                          main_CHOOSE_FONT_RE(line)),
                     main_FONT_COLOR_RE(line)),
               CUSTOM_LINE_RE(line))

\* "for line in lines": the state after a line is computed before the next line
\* is read (the test on it below only makes the evaluation happen here)
RECURSIVE main_lines(_, _, _)
main_lines(st, lines, source_name) ==
    IF lines = << >> THEN st
    ELSE LET rest(nxt) == IF Len(nxt.parsed_rows) >= 0
                          THEN main_lines(nxt, Tail(lines), source_name)
                          ELSE nxt
         IN  rest(main_line(st, lines[1], source_name))

RECURSIVE main_pages(_, _, _)
main_pages(st, pages, source_name) ==
    IF pages = << >> THEN st
    ELSE LET page(lines) ==
                 main_pages(main_lines(main_page_order(st, lines, source_name), lines, source_name),
                            Tail(pages), source_name)
         IN  page(clean_lines(split(pages[1], "\n")))

\* the ParsedItems of one file, the last pending item flushed at the file's end
main_file_rows(f) ==
    LET finish(st) == st.parsed_rows \o flush_item_if_ready(st.item_ctx, f.name)
    IN  finish(main_pages(MainStart, f.pages, f.name))

RECURSIVE main_parsed_rows(_)
main_parsed_rows(fs) ==
    IF fs = << >> THEN << >>
    ELSE main_file_rows(fs[1]) \o main_parsed_rows(Tail(fs))

\* the DataFrame clean-up of parse_pdfs on one row (fillna, title-casing)
main_df_row(r) ==
    [r EXCEPT !.buyer_name = title(@),
              !.color = title(replace(@, "_", " ")),
              !.thread_color_en = title(@),
              !.order_id = IF @ = None THEN "" ELSE @]

parse_pdfs(fs) ==
    LET df(parsed_rows) == [n \in 1..Len(parsed_rows) |-> main_df_row(parsed_rows[n])]
    IN  df(main_parsed_rows(fs))

\* the characters of a colour name, in code-point order
Ascii == " #()-/0123456789:ABCDEFGHIJKLMNOPQRSTUVWXYZ_abcdefghijklmnopqrstuvwxyz"

ord(c) == CHOOSE i \in 1..Len(Ascii) : SubSeq(Ascii, i, i) = c

\* a < b for Python strings
str_lt(a, b) ==
    \E k \in 1..(Min({Len(a), Len(b)}) + 1) :
        /\ SubSeq(a, 1, k - 1) = SubSeq(b, 1, k - 1)
        /\ IF k > Len(a) THEN k <= Len(b)
           ELSE k <= Len(b) /\ ord(SubSeq(a, k, k)) < ord(SubSeq(b, k, k))

\* sorted(S) for a set of strings
RECURSIVE sorted_strings(_)
sorted_strings(S) ==
    LET least(m) == <<m>> \o sorted_strings(S \ {m})
    IN  IF S = {} THEN << >>
        ELSE least(CHOOSE x \in S : \A y \in S : x = y \/ str_lt(x, y))

SummaryColumns == <<"3/6-Pcs Sets", "Hand Towel Sets", "Bath Towel Sets", "Bath Sheets (1 Pc)">>

\* categorize_and_sets(sku, qty): (category, sets), ("", 0) for a SKU of no category
categorize_and_sets(sku, qty) ==
    IF contains(sku, "Set-6Pcs") THEN <<"3/6-Pcs Sets", qty * 2>>
    ELSE IF contains(sku, "Set-3Pcs") THEN <<"3/6-Pcs Sets", qty>>
    ELSE IF contains(sku, "HT-2Pcs") \/ istartswith(sku, "ht-2pcs") \/ istartswith(sku, "ht2pcs")
    THEN <<"Hand Towel Sets", qty>>
    ELSE IF contains(sku, "BT-2Pcs") \/ istartswith(sku, "bt-2pcs") \/ istartswith(sku, "bt2pcs")
    THEN <<"Bath Towel Sets", qty>>
    ELSE IF contains(sku, "BS-1Pcs") \/ startswith(sku, "BS") THEN <<"Bath Sheets (1 Pc)", qty>>
    ELSE <<"", 0>>

\* the (Color, Category, Sets) rows of the rows of df that have a category
RECURSIVE summary_rows(_)
summary_rows(df) ==
    LET row(r, cs) == IF cs[1] = "" THEN << >> ELSE << <<r.color, cs[1], cs[2]>> >>
    IN  IF df = << >> THEN << >>
        ELSE row(df[1], categorize_and_sets(df[1].sku, df[1].quantity))
             \o summary_rows(Tail(df))

\* pivot_table(aggfunc="sum", fill_value=0): the sum of Sets over the rows of a
\* colour and a category
RECURSIVE pivot_sum(_, _, _)
pivot_sum(tmp, color, cat) ==
    IF tmp = << >> THEN 0
    ELSE (IF tmp[1][1] = color /\ tmp[1][2] = cat THEN tmp[1][3] ELSE 0)
         + pivot_sum(Tail(tmp), color, cat)

\* the rows of the table returned, one per colour, sorted by colour; << >> for
\* the empty table
production_summary(df) ==
    LET pivot(tmp, colors) ==
            [n \in 1..Len(colors) |->
                [col \in {"Color"} \cup {SummaryColumns[k] : k \in 1..Len(SummaryColumns)} |->
                    IF col = "Color" THEN colors[n] ELSE pivot_sum(tmp, colors[n], col)]]
        table(tmp) == pivot(tmp, sorted_strings({tmp[n][1] : n \in 1..Len(tmp)}))
    IN  table(summary_rows(df))

\* extract_text_lines: the rstripped lines of every page, in page order
RECURSIVE extract_text_lines(_)
extract_text_lines(pages) ==
    IF pages = << >> THEN << >>
    ELSE LET page_lines == splitlines(pages[1])
         IN  [n \in 1..Len(page_lines) |-> rstrip(page_lines[n])]
             \o extract_text_lines(Tail(pages))

(***************************************************************************)
(* State: one run of one of the three scripts on a batch of uploaded PDFs. *)
(* A file is a record of its name and of its pages' extracted texts.       *)
(***************************************************************************)
VARIABLES
    program,      \* the script that runs: "towel_parser", "app" or "main_app"
    files,        \* the uploaded batch
    phase,        \* "uploaded" before the run, "parsed" after it, "failed" when it raised
    rows,         \* the records the parse produced, in output order
    order_spans,  \* towel_parser: split_orders' result for each file
    faults,       \* <<n, 0>>: opening file n raises; <<n, p>>: page p's extract_text raises
    summary,      \* main_app: the production summary shown for the parsed records
    dashboard,    \* towel_parser: the table of rows_for_dashboard
    labels        \* towel_parser: the label payloads of make_labels_pdf for the table

vars == <<program, files, phase, rows, order_spans, faults, summary, dashboard, labels>>

\* the batch as the page loops read it: the text of a page whose extract_text
\* raises inside the loop's try is ""
extracted(fs, flt) ==
    [n \in 1..Len(fs) |->
        [name |-> fs[n].name,
         pages |-> [p \in 1..Len(fs[n].pages) |->
                       IF <<n, p>> \in flt THEN "" ELSE fs[n].pages[p]]]]

\* pdfplumber.open raises for some file of the batch
open_fails(fs, flt) == \E n \in 1..Len(fs) : <<n, 0>> \in flt

\* app.py: a file whose open raises is skipped by the except branch
opened(fs, flt) ==
    LET keep(idx, texts) == [k \in 1..Len(idx) |-> texts[idx[k]]]
    IN  keep(Sorted({n \in 1..Len(fs) : <<n, 0>> \notin flt}), extracted(fs, flt))

\* order_map of rows_for_dashboard and of make_labels_pdf: the canonical piece
\* sequence of each structured product type
order_map == <<
    <<"6-pc Set", <<"First Washcloth", "Second Washcloth", "First Hand Towel",
                    "Second Hand Towel", "First Bath Towel", "Second Bath Towel">> >>,
    <<"3-pc Set", <<"Washcloth", "Hand Towel", "Bath Towel">> >>,
    <<"2-pc Hand Towels", <<"First Hand Towel", "Second Hand Towel">> >>,
    <<"2-pc Bath Towels", <<"First Bath Towel", "Second Bath Towel">> >>,
    <<"Bath Sheet (Oversized)", <<"Oversized Bath Sheet">> >> >>

\* the non-empty values of it.customization: in the order of the type's
\* sequence, or in the dict's order for a type with no sequence
cust_parts(it, sequence) ==
    LET nonempty(vs) == SelectSeq(vs, LAMBDA v : v # "")
    IN  IF sequence # << >>
        THEN nonempty([k \in 1..Len(sequence) |-> DictGetOr(it.customization, sequence[k], "")])
        ELSE nonempty([k \in 1..Len(it.customization) |-> it.customization[k][2]])

\* rows_for_dashboard: the rows of the table, one per item
rows_for_dashboard(items) ==
    [n \in 1..Len(items) |->
        LET it == items[n]
        IN  ("Order ID" :> it.order_id) @@ ("Order Date" :> it.order_date)
            @@ ("Buyer Name" :> it.buyer_full_name) @@ ("Product Type" :> it.product_type)
            @@ ("Color" :> it.color) @@ ("Quantity" :> it.quantity) @@ ("Font" :> it.font)
            @@ ("Thread Color" :> it.thread_color)
            @@ ("Customization" :>
                    join(cust_parts(it, DictGetOr(order_map, it.product_type, << >>)), " | "))
            @@ ("Shipping Service" :> it.shipping_service) @@ ("SKU" :> it.sku)]

\* the custom_lines of a label: the i-th piece of the type's sequence with the
\* i-th value of the split "Customization" string, empty values left out
custom_lines(r) ==
    LET values(parts) == [k \in 1..Len(parts) |-> strip(parts[k])]
        pairs(sequence, vs) ==
            SelectSeq([i \in 1..Len(sequence) |->
                          <<sequence[i], IF i <= Len(vs) THEN vs[i] ELSE "">>],
                      LAMBDA pv : pv[2] # "")
    IN  pairs(DictGetOr(order_map, r["Product Type"], << >>),
              IF r["Customization"] # "" THEN values(split(r["Customization"], "|")) ELSE << >>)

\* make_labels_pdf: the payload drawn on the label of each row
make_labels_pdf(table) ==
    [n \in 1..Len(table) |->
        [buyer |-> table[n]["Buyer Name"], product_type |-> table[n]["Product Type"],
         color |-> table[n]["Color"], thread |-> table[n]["Thread Color"],
         font |-> table[n]["Font"], quantity |-> table[n]["Quantity"],
         custom_lines |-> custom_lines(table[n])]]

\* towel_parser.py, the upload handler: every file is read and parsed in turn
RECURSIVE tp_all_items(_)
tp_all_items(fs) ==
    IF fs = << >> THEN << >>
    ELSE parse_orders_from_text(extract_text_lines(fs[1].pages)) \o tp_all_items(Tail(fs))

RunTowelParser ==
    /\ program = "towel_parser"
    /\ phase = "uploaded"
    /\ files # << >>    \* "if uploaded_files:"
    /\ IF faults # {}
       THEN \* extract_text_lines has no try: the exception ends the script run
            /\ phase' = "failed"
            /\ UNCHANGED <<rows, order_spans, dashboard, labels>>
       ELSE /\ rows' = tp_all_items(files)
            /\ order_spans' = [n \in 1..Len(files) |->
                                  split_orders(extract_text_lines(files[n].pages))]
            \* "if not all_items: st.stop()"; the filters are at "(All)"
            /\ dashboard' = rows_for_dashboard(rows')
            /\ labels' = make_labels_pdf(dashboard')
            /\ phase' = "parsed"
    /\ UNCHANGED <<program, files, faults, summary>>

\* app.py run as a script: PAGE_SIZE = (6 * inch, 4 * inch) at module level
\* raises NameError, inch being imported nowhere, on every run and ahead of the
\* uploader and of the "Parse PDFs" button; nothing is parsed or stored
RunApp ==
    /\ program = "app"
    /\ phase = "uploaded"
    /\ phase' = "failed"
    /\ UNCHANGED <<program, files, rows, order_spans, faults, summary, dashboard, labels>>

\* main_app.py, the upload tab
RunMainApp ==
    /\ program = "main_app"
    /\ phase = "uploaded"
    /\ files # << >>    \* "if uploaded:"
    /\ IF open_fails(files, faults)
       THEN \* pdfplumber.open is outside every try: parse_pdfs raises
            /\ phase' = "failed"
            /\ UNCHANGED <<rows, summary>>
       ELSE /\ rows' = parse_pdfs(extracted(files, faults))
            /\ summary' = production_summary(rows')
            /\ phase' = "parsed"
    /\ UNCHANGED <<program, files, order_spans, faults, dashboard, labels>>

(***************************************************************************)
(* Inputs: the uploaded batches each specification starts from             *)
(***************************************************************************)
\* all line lists of at most n lines over a pool of lines
LineLists(pool, n) == UNION {[1..k -> pool] : k \in 0..n}

\* a batch of one single-page file holding the given lines
OnePage(lns) == << [name |-> "slip.pdf", pages |-> <<join(lns, "\n")>>] >>

Uploaded(progs, batches) ==
    /\ program \in progs
    /\ files \in batches
    /\ phase = "uploaded"
    /\ rows = << >>
    /\ order_spans = << >>
    /\ faults = {}
    /\ summary = << >>
    /\ dashboard = << >>
    /\ labels = << >>

\* --- the end-to-end packing slip and the slips obtained by leaving lines out
E2ELines == <<
    "Order ID: 123-4567890-1234567",
    "Buyer Name: Jane Doe",
    "SKU: Set-3Pcs-White",
    "Quantity 2",
    "Choose Your Font: Script",
    "Font Color: Navy (#123456)",
    "Washcloth: JD" >>

\* page 1 holds the chosen lines, page 2 is blank
TwoPages(lns) == << [name |-> "slip.pdf", pages |-> <<join(lns, "\n"), "">>] >>

E2EFiles == TwoPages(E2ELines)

Pick(lns, S) == LET idx == Sorted(S) IN [k \in 1..Len(idx) |-> lns[idx[k]]]

Init == Uploaded({"towel_parser", "app", "main_app"},
                 {TwoPages(Pick(E2ELines, S)) : S \in SUBSET (1..Len(E2ELines))})

Next == RunTowelParser \/ RunApp \/ RunMainApp

Spec == Init /\ [][Next]_vars

\* --- segmentation: every slip of at most MaxLines lines over SegPool
MaxLines == 4

SegPool ==
    {"Order ID: 123-4567890-1234567",
     "Order ID: 111-2222222-3333333",
     "SKU: Set-3Pcs-White",
     "SKU: HT-2Pcs-Navy",
     "SKU:",
     "Buyer Name: Jane Doe"}

InitSeg == Uploaded({"towel_parser", "app"}, {OnePage(d) : d \in LineLists(SegPool, MaxLines)})

NextSeg == RunTowelParser \/ RunApp

SpecSeg == InitSeg /\ [][NextSeg]_vars

\* --- order identifiers: well-formed, malformed, with trailing text, absent
MaxIdLines == 3

IdPool ==
    {"Order ID: 123-4567890-1234567",
     "Order ID: 123-4567890-1234567 Custom Order",
     "Order ID: 12-34",
     "SKU: Set-3Pcs-White",
     "SKU: HT-2Pcs-Navy"}

InitOrderId == Uploaded({"towel_parser", "app", "main_app"},
                        {OnePage(d) : d \in LineLists(IdPool, MaxIdLines)})

SpecOrderId == InitOrderId /\ [][Next]_vars

\* --- quantities: an order anchor followed by at most MaxQtyLines lines over QtyPool
MaxQtyLines == 3

QtyPool ==
    {"Order ID: 111-2222222-3333333",
     "SKU: Set-3Pcs-White",
     "SKU: HT-2Pcs-Navy",
     "Quantity 2",
     "Quantity 0",
     "0",
     "3 Personalized Towel"}

InitQty == Uploaded({"towel_parser", "app", "main_app"},
                    {OnePage(<<"Order ID: 123-4567890-1234567">> \o d) :
                        d \in LineLists(QtyPool, MaxQtyLines)})

SpecQty == InitQty /\ [][Next]_vars

\* --- the backward quantity window: standalone integers at chosen distances
\* above the SKU line, other lines in between
MaxGap == 16

Fill(n) == [k \in 1..n |-> "Personalized Towel"]

WindowSlips ==
    {<<"Order ID: 123-4567890-1234567">> \o far \o Fill(b) \o near \o Fill(c)
        \o <<"SKU: Set-3Pcs-White">> :
        far \in {<< >>, <<"7">>}, near \in {<< >>, <<"3">>}, b \in 0..MaxGap, c \in 0..MaxGap}

InitWindow == Uploaded({"towel_parser"}, {OnePage(d) : d \in WindowSlips})

NextWindow == RunTowelParser

SpecWindow == InitWindow /\ [][NextWindow]_vars

\* --- SKUs: one order with up to MaxSkus SKU lines over SkuPool
MaxSkus == 2

SkuPool ==
    {"Set-3Pcs-White", "Set-6Pcs-Mid Blue", "HT-2Pcs-Navy", "HT-2PCS-White",
     "BT-2Pcs-Light-Blue", "BS-1Pcs-Lilac",
     "XX-Unknown-Navy", "XX-2PCS-Red", "Towel", "NAVY - B"}

SkuLines(d) == [k \in 1..Len(d) |-> "SKU: " \o d[k]]

InitSku == Uploaded({"towel_parser", "app", "main_app"},
                    {OnePage(<<"Order ID: 123-4567890-1234567">> \o SkuLines(d)) :
                        d \in LineLists(SkuPool, MaxSkus)})

SpecSku == InitSku /\ [][Next]_vars

\* --- SKUs written with "Pcs" and with "PCS": one order with up to MaxPcsSkus
\* SKU lines over PcsPool
MaxPcsSkus == 2

PcsPool ==
    {"HT-2Pcs-White", "HT-2PCS-White", "BT-2Pcs-White", "BT-2PCS-White",
     "BS-1Pcs-Lilac", "BS-1PCS-Lilac", "Set-3Pcs-White", "Set-3PCS-White"}

InitPcs == Uploaded({"towel_parser", "app"},
                    {OnePage(<<"Order ID: 123-4567890-1234567">> \o SkuLines(d)) :
                        d \in LineLists(PcsPool, MaxPcsSkus)})

SpecPcs == InitPcs /\ [][NextSeg]_vars

\* --- personalization lines: one order with one item followed by up to
\* MaxThreadLines font and thread-colour lines over ThreadPool
MaxThreadLines == 2

ThreadPool ==
    {"Font Color: Navy (#123456)", "Font Color: Chartreuse", "Font Color:",
     "Thread Color: Gold", "Thread Color: (#ffffff)",
     "Choose Your Font: Script", "Choose Your Font: Arial", "Choose Your Font:",
     "Embroidery Font: Block", "Embroidery Font:"}

InitThread == Uploaded({"app"},
                       {OnePage(<<"Order ID: 123-4567890-1234567", "SKU: Set-3Pcs-White">> \o d) :
                           d \in LineLists(ThreadPool, MaxThreadLines)})

NextThread == RunApp

SpecThread == InitThread /\ [][NextThread]_vars

\* --- thread colours in several spellings: one order with up to MaxCaseItems
\* items, each followed by one thread-colour line over CasePool
MaxCaseItems == 2

CasePool ==
    {"Font Color: Navy (#123456)", "Font Color: navy (#123456)",
     "Font Color:  NAVY  (#123)", "Font Color: Light Blue (#abc)",
     "Font Color: light  blue (#abc)", "Font Color: Chartreuse (#abc)"}

RECURSIVE CaseLines(_)
CaseLines(d) ==
    IF d = << >> THEN << >> ELSE <<"SKU: Set-3Pcs-White", d[1]>> \o CaseLines(Tail(d))

InitCase == Uploaded({"app", "main_app"},
                     {OnePage(<<"Order ID: 123-4567890-1234567">> \o CaseLines(d)) :
                         d \in LineLists(CasePool, MaxCaseItems)})

NextCase == RunApp \/ RunMainApp

SpecCase == InitCase /\ [][NextCase]_vars

\* --- customization sections: one order with one item of a structured product
\* type, a "Customizations:" header and up to MaxCustomLines lines over
\* CustomPool
MaxCustomLines == 2

CustomSkus == {"SKU: Set-3Pcs-White", "SKU: HT-2Pcs-Navy"}

CustomPool ==
    {"Washcloth: JD", "Washcloth: AB", "Hand Towel: X", "First Hand Towel: Jo",
     "Second Washcloth: Q", "Left Hand: L", "Gift Note: hi"}

InitCustom == Uploaded({"towel_parser", "app"},
                       {OnePage(<<"Order ID: 123-4567890-1234567", s, "Customizations:">> \o d) :
                           s \in CustomSkus, d \in LineLists(CustomPool, MaxCustomLines)})

SpecCustom == InitCustom /\ [][NextSeg]_vars

\* --- the two-line protocol: one order, one label line, up to
\* MaxBlank empty lines, one value line and one item
MaxBlank == 6

MetaAnchors == {"Order Date:", "Shipping Service:", "Ship To:", "ship to:  ", "Order Date: today"}

MetaValues == {"Mon, Jan 5,", " Jane Doe ", "Standard"}

MetaSlips ==
    {<<"Order ID: 123-4567890-1234567", a>> \o [k \in 1..g |-> ""]
        \o <<v, "SKU: Set-3Pcs-White">> :
        a \in MetaAnchors, g \in 0..MaxBlank, v \in MetaValues}

InitMeta == Uploaded({"towel_parser"}, {OnePage(d) : d \in MetaSlips})

SpecMeta == InitMeta /\ [][NextWindow]_vars

\* --- order metadata: up to MaxOrders orders, each with its anchor line, one
\* of OrderMeta (no metadata, or one label line and its value line) and one or
\* two items
MaxOrders == 2

OrderMeta ==
    {<< >>, <<"Order Date:", "Mon, Jan 5">>, <<"Order Date:", "Tue, Feb 7">>,
     <<"Shipping Service:", "Standard">>, <<"Ship To:", "Jane Doe">>,
     <<"Ship To:", "John Roe">>}

OrderItems == {<<"SKU: Set-3Pcs-White">>, <<"SKU: Set-3Pcs-White", "SKU: HT-2Pcs-Navy">>}

OrderAnchors == <<"Order ID: 111-1111111-1111111", "Order ID: 222-2222222-2222222",
                  "Order ID: 333-3333333-3333333">>

RECURSIVE OrderLines(_, _)
OrderLines(os, k) ==
    IF k > Len(os) THEN << >>
    ELSE <<OrderAnchors[k]>> \o os[k][1] \o os[k][2] \o OrderLines(os, k + 1)

InitOrders == Uploaded({"towel_parser"},
                       {OnePage(OrderLines(os, 1)) :
                           os \in LineLists(OrderMeta \X OrderItems, MaxOrders)})

SpecOrders == InitOrders /\ [][NextWindow]_vars

\* --- the production summary: one order with up to MaxSummaryLines lines over
\* SummaryPool, SKUs of every category, of no category, and leading quantities
MaxSummaryLines == 3

SummaryPool ==
    {"SKU: Set-6Pcs-White",
     "SKU: Set-3Pcs-White",
     "SKU: HT-2Pcs-Navy",
     "SKU: BS-1Pcs-Navy",
     "SKU: XX-1Pcs-White",
     "2 Personalized Towel"}

InitSummary == Uploaded({"main_app"},
                        {OnePage(<<"Order ID: 123-4567890-1234567">> \o d) :
                            d \in LineLists(SummaryPool, MaxSummaryLines)})

NextMain == RunMainApp

SpecSummary == InitSummary /\ [][NextMain]_vars

\* --- extraction failures: two files of two pages each over PagePool, and at
\* most MaxFaults failures among the files' opens and the pages' extractions
MaxFaults == 1

PagePool ==
    {"Order ID: 111-1111111-1111111\nSKU: Set-3Pcs-White",
     "Order ID: 222-2222222-2222222\nSKU: HT-2Pcs-Navy",
     "SKU: BS-1Pcs-Lilac"}

FaultBatches ==
    {<< [name |-> "a.pdf", pages |-> <<a1, a2>>], [name |-> "b.pdf", pages |-> <<b1, b2>>] >> :
        a1 \in PagePool, a2 \in PagePool, b1 \in PagePool, b2 \in PagePool}

FaultSites == (1..2) \X (0..2)

InitFaults ==
    /\ program \in {"app", "main_app"}
    /\ files \in FaultBatches
    /\ faults \in {F \in SUBSET FaultSites : Cardinality(F) <= MaxFaults}
    /\ phase = "uploaded"
    /\ rows = << >>
    /\ order_spans = << >>
    /\ summary = << >>
    /\ dashboard = << >>
    /\ labels = << >>

NextFaults == RunApp \/ RunMainApp

SpecFaults == InitFaults /\ [][NextFaults]_vars

\* --- item chunks: one order with up to MaxChunkItems items, each a SKU line
\* followed by one of ChunkSections (no section, or a "Customizations:" section)
MaxChunkItems == 2

ChunkSkus == {"SKU: Set-3Pcs-White", "SKU: HT-2Pcs-Navy"}

ChunkSections ==
    {<< >>,
     <<"Personalized Towel">>,
     <<"Customizations:", "Choose Your Font: Script", "Font Color: Navy", "Washcloth: JD">>,
     <<"Customizations:", "Choose Your Font: Block", "First Hand Towel: Jo">>}

RECURSIVE ChunkLines(_)
ChunkLines(its) ==
    IF its = << >> THEN << >> ELSE <<its[1][1]>> \o its[1][2] \o ChunkLines(Tail(its))

InitChunk == Uploaded({"towel_parser"},
                      {OnePage(<<"Order ID: 123-4567890-1234567">> \o ChunkLines(its)) :
                          its \in UNION {[1..k -> ChunkSkus \X ChunkSections] :
                                            k \in 0..MaxChunkItems}})

SpecChunk == InitChunk /\ [][NextWindow]_vars

\* --- quantities around an order anchor: an optional integer line ahead of the
\* first anchor, an optional first order ending in an integer line, then an
\* order whose item has an optional integer line of its own; up to MaxPad other
\* lines at each place
MaxPad == 2

BlockSlips ==
    {pre \o Fill(a) \o prev \o Fill(b) \o <<"Order ID: 222-2222222-2222222">> \o own \o Fill(c)
        \o <<"SKU: HT-2Pcs-Navy">> :
        pre \in {<< >>, <<"7">>},
        prev \in {<< >>,
                  <<"Order ID: 111-1111111-1111111", "SKU: Set-3Pcs-White">>,
                  <<"Order ID: 111-1111111-1111111", "SKU: Set-3Pcs-White", "5">>},
        own \in {<< >>, <<"3">>},
        a \in 0..MaxPad, b \in 0..MaxPad, c \in 0..MaxPad}

InitBlock == Uploaded({"towel_parser"}, {OnePage(d) : d \in BlockSlips})

SpecBlock == InitBlock /\ [][NextWindow]_vars

\* --- page layouts: one file of two pages, each of up to MaxPageLines lines
\* over LayoutPool (order anchors and SKU lines)
MaxPageLines == 2

LayoutPool ==
    {"Order ID: 111-1111111-1111111",
     "Order ID: 222-2222222-2222222",
     "SKU: Set-3Pcs-White",
     "SKU: HT-2Pcs-Navy"}

PagesOf(p1, p2) == << [name |-> "slip.pdf", pages |-> <<join(p1, "\n"), join(p2, "\n")>>] >>

InitLayout == Uploaded({"main_app"},
                       {PagesOf(p1, p2) : p1 \in LineLists(LayoutPool, MaxPageLines),
                                          p2 \in LineLists(LayoutPool, MaxPageLines)})

SpecLayout == InitLayout /\ [][NextMain]_vars

\* --- buyer names: two orders, each on a page of its own that starts with the
\* order anchor, followed by up to MaxBuyerLines lines over BuyerPool
MaxBuyerLines == 2

BuyerPool ==
    {"Buyer Name: Jane Doe",
     "Buyer Name: Bob Ray",
     "SKU: Set-3Pcs-White",
     "SKU: HT-2Pcs-Navy"}

InitBuyer == Uploaded({"main_app"},
                      {PagesOf(<<"Order ID: 111-1111111-1111111">> \o d1,
                               <<"Order ID: 222-2222222-2222222">> \o d2) :
                          d1 \in LineLists(BuyerPool, MaxBuyerLines),
                          d2 \in LineLists(BuyerPool, MaxBuyerLines)})

SpecBuyer == InitBuyer /\ [][NextMain]_vars

\* --- leading quantities: two orders, each anchor followed by up to
\* MaxLeadLines lines over LeadPool, on one page or with a page break ahead of
\* the second anchor
MaxLeadLines == 2

LeadPool ==
    {"2 Personalized Towel",
     "3 Personalized Towel",
     "SKU: Set-3Pcs-White",
     "SKU: HT-2Pcs-Navy"}

InitLead == Uploaded({"main_app"},
                     {IF brk THEN PagesOf(<<"Order ID: 111-1111111-1111111">> \o d1,
                                          <<"Order ID: 222-2222222-2222222">> \o d2)
                      ELSE OnePage(<<"Order ID: 111-1111111-1111111">> \o d1
                                   \o <<"Order ID: 222-2222222-2222222">> \o d2) :
                         brk \in BOOLEAN,
                         d1 \in LineLists(LeadPool, MaxLeadLines),
                         d2 \in LineLists(LeadPool, MaxLeadLines)})

SpecLead == InitLead /\ [][NextMain]_vars

(***************************************************************************)
(* Properties                                                              *)
(***************************************************************************)
Parsed(prog) == program = prog /\ phase = "parsed"

\* the run of the script has ended, with records or with an exception
Ran(prog) == program = prog /\ phase # "uploaded"

\* the lines of an uploaded file as the slip shows them, pages in order
SlipLines(f) == split(join(f.pages, "\n"), "\n")

\* a line that, stripped, is "Order ID:" (any case) followed by optional
\* whitespace and at least one digit or hyphen
IsOrderAnchorLine(line) ==
    LET l == strip(line)
        r == lstrip(From(l, 10))
    IN  /\ lower(Sub(l, 1, 9)) = "order id:"
        /\ Ch(r, 1) \in Digits \cup {"-"}

AnchorIndices(lines) == Sorted({i \in 0..(Len(lines) - 1) : IsOrderAnchorLine(At(lines, i))})

\* C1: for the anchor lines at indices h1 < ... < hN of a document, split_orders
\* returns exactly the spans (h1,h2), (h2,h3), ..., (hN,len(lines)): ordered,
\* contiguous, non-overlapping, the last one ending at the end of the document,
\* the lines before h1 in no span
C1_SplitOrdersSpans ==
    Parsed("towel_parser") =>
        \A f \in 1..Len(files) :
            LET lines == extract_text_lines(files[f].pages)
                h     == AnchorIndices(lines)
                spans == order_spans[f]
            IN  /\ Len(spans) = Len(h)
                /\ \A k \in 1..Len(h) :
                       spans[k] = <<h[k], IF k < Len(h) THEN h[k + 1] ELSE Len(lines)>>

\* two orders, a line before the first anchor, and the last span ends at the
\* end of a four-line document
C1_Witness ==
    /\ Parsed("towel_parser")
    /\ Len(order_spans[1]) = 2
    /\ order_spans[1][1][1] = 1
    /\ order_spans[1][2][2] = 4

\* the identifier announced by a well-formed order anchor line, "" for other lines
AnchorId(line) ==
    LET l == strip(line)
        r == lstrip(From(l, 10))
    IN  IF Sub(l, 1, 9) = "Order ID:" /\ OrderIdAt(r, 1) THEN Sub(r, 1, 19) ELSE ""

\* the value of a SKU anchor line, "" for other lines and for an empty value
SkuValue(line) ==
    LET l == strip(line)
    IN  IF Sub(l, 1, 4) = "SKU:" THEN strip(From(l, 5)) ELSE ""

\* the items a slip announces: one per SKU anchor line with a value inside an
\* order block, with the block (the index of its order anchor) it lies in and
\* the index of its SKU line
ExpectedItems(lines) ==
    LET A      == {a \in 1..Len(lines) : AnchorId(lines[a]) # ""}
        blk(n) == Max({a \in A : a < n})
        N      == Sorted({n \in 1..Len(lines) :
                             SkuValue(lines[n]) # "" /\ \E a \in A : a < n})
    IN  [k \in 1..Len(N) |->
            [blk |-> blk(N[k]), line |-> N[k], order_id |-> AnchorId(lines[blk(N[k])]),
             sku |-> SkuValue(lines[N[k]])]]

RowOrderId(r) == IF program = "app" THEN r.Order_ID ELSE r.order_id

RowSku(r) == IF program = "app" THEN r.SKU ELSE r.sku

RowBuyer(r) == IF program = "app" THEN r.Buyer_Name
               ELSE IF program = "towel_parser" THEN r.buyer_full_name
               ELSE r.buyer_name

\* C2: a run of towel_parser.py or app.py ends with its records, and within
\* one order block the items emitted are, in order, the SKU anchor
\* lines whose value is non-empty (a SKU anchor with an empty value yields no
\* item), and the items of one block carry the same order id and the same buyer
C2_ItemsPerBlock ==
    (Ran("app") \/ Parsed("towel_parser")) =>
        /\ phase = "parsed"
        /\ LET exp == ExpectedItems(SlipLines(files[1]))
           IN  /\ Len(rows) = Len(exp)
               /\ \A k \in 1..Len(exp) :
                      /\ RowOrderId(rows[k]) = exp[k].order_id
                      /\ RowSku(rows[k]) = exp[k].sku
               /\ \A j, k \in 1..Len(exp) :
                      exp[j].blk = exp[k].blk =>
                          /\ RowOrderId(rows[j]) = RowOrderId(rows[k])
                          /\ RowBuyer(rows[j]) = RowBuyer(rows[k])

\* C6: end to end on app.py, the run on the packing slip of E2ELines followed
\* by a blank page ends with exactly one record: order 123-4567890-1234567, buyer Jane Doe,
\* product type "3-Piece Towel Set", colour White, quantity 2, font Script,
\* thread colour "Azul Marino (Navy)" and the single customization Washcloth: JD
C6_EndToEnd ==
    (Ran("app") /\ files = E2EFiles) =>
        /\ phase = "parsed"
        /\ /\ Len(rows) = 1
           /\ rows[1].Order_ID = "123-4567890-1234567"
           /\ rows[1].Buyer_Name = "Jane Doe"
           /\ rows[1].SKU = "Set-3Pcs-White"
           /\ rows[1].Product_Type = "3-Piece Towel Set"
           /\ rows[1].Towel_Color = "White"
           /\ rows[1].Quantity = 2
           /\ rows[1].Font = "Script"
           /\ rows[1].Thread_Color = "Azul Marino (Navy)"
           /\ rows[1].Customization_Lines = <<"Washcloth: JD">>

RowQuantity(r) == IF program = "app" THEN r.Quantity ELSE r.quantity

\* C3: every record emitted by the three parsers has a quantity >= 1; a
\* quantity signal that is missing or zero gives 1, never 0
C3_QuantityAtLeastOne ==
    phase = "parsed" => \A k \in 1..Len(rows) : RowQuantity(rows[k]) >= 1

\* exactly three digits, a hyphen, seven digits, a hyphen, seven digits
IsOrderIdForm(id) == Len(id) = 19 /\ OrderIdAt(id, 1)

\* C4: every record in the output of parse_pdfs_to_df (app.py) and of
\* parse_orders_from_text (towel_parser.py) has an order id that is exactly of
\* the form DDD-DDDDDDD-DDDDDDD, with no extra text
C4_OrderIdExactForm ==
    (Parsed("app") \/ Parsed("towel_parser")) =>
        \A k \in 1..Len(rows) : IsOrderIdForm(RowOrderId(rows[k]))

\* C5: parse_pdfs (main_app.py) never emits a record with an empty order id
C5_NoBlankOrderId ==
    Parsed("main_app") => \A k \in 1..Len(rows) : rows[k].order_id # ""

\* the n of a line "Quantity <n>", -1 for any other line
QuantityOf(line) ==
    LET l == strip(line)
        d == lstrip(From(l, 9))
    IN  IF /\ lower(Sub(l, 1, 8)) = "quantity"
           /\ Ch(l, 9) \in Whitespace
           /\ d # ""
           /\ AllIn(d, Digits)
        THEN int(d) ELSE -1

\* the n of the first "Quantity <n>" line among lines[a..b], -1 if there is none
FirstQuantity(lines, a, b) ==
    LET Q == {j \in a..b : QuantityOf(lines[j]) >= 0}
    IN  IF Q = {} THEN -1 ELSE QuantityOf(lines[Min(Q)])

\* the last line of the chunk of the k-th expected item: the line before the
\* next SKU anchor of the slip, or the last line of the block
ChunkEnd(lines, exp, k) ==
    LET later == {n \in (exp[k].line + 1)..Len(lines) :
                     Sub(strip(lines[n]), 1, 4) = "SKU:" \/ AnchorId(lines[n]) # ""}
    IN  IF later = {} THEN Len(lines) ELSE Min(later) - 1

BlockEnd(lines, exp, k) ==
    LET later == {n \in (exp[k].blk + 1)..Len(lines) : AnchorId(lines[n]) # ""}
    IN  IF later = {} THEN Len(lines) ELSE Min(later) - 1

\* C7: a run of app.py ends with its records, and an item's quantity is the n of the first
\* "Quantity <n>" of its own chunk, and 1 when its chunk has none, whatever the
\* rest of the block holds
C7_ChunkLocalQuantity ==
    Ran("app") =>
        /\ phase = "parsed"
        /\ LET lines == SlipLines(files[1])
               exp   == ExpectedItems(lines)
           IN  /\ Len(rows) = Len(exp)
               /\ \A k \in 1..Len(exp) :
                      LET own == FirstQuantity(lines, exp[k].line, ChunkEnd(lines, exp, k))
                      IN  rows[k].Quantity = IF own >= 0 THEN own ELSE 1

\* a line that holds just an integer
IsIntegerLine(line) == strip(line) # "" /\ AllIn(strip(line), Digits)

\* the value of the nearest integer line among the w lines before line n, 1 if
\* there is none
NearestInteger(lines, n, w) ==
    LET J == {j \in (IF n - w > 1 THEN n - w ELSE 1)..(n - 1) : IsIntegerLine(lines[j])}
    IN  IF J = {} THEN 1 ELSE int(strip(lines[Max(J)]))

\* C8 as claimed: in towel_parser.py an item's quantity is the value of the
\* nearest integer line among the 15 lines before its SKU anchor, 1 if none
C8_BackwardWindow15 ==
    Parsed("towel_parser") =>
        LET lines == SlipLines(files[1])
            exp   == ExpectedItems(lines)
        IN  /\ Len(rows) = Len(exp)
            /\ \A k \in 1..Len(exp) :
                   rows[k].quantity = NearestInteger(lines, exp[k].line, 15)

\* C8 amended: in towel_parser.py an item's quantity is the value of the nearest
\* integer line among the 10 lines before its SKU anchor, 1 if there is none
C8_BackwardWindow10 ==
    Parsed("towel_parser") =>
        LET lines == SlipLines(files[1])
            exp   == ExpectedItems(lines)
        IN  /\ Len(rows) = Len(exp)
            /\ \A k \in 1..Len(exp) :
                   rows[k].quantity = NearestInteger(lines, exp[k].line, 10)

\* the nearest integer line is 11 lines above the SKU anchor and the item has
\* quantity 1
C8_Witness ==
    /\ Parsed("towel_parser")
    /\ Len(rows) = 1
    /\ rows[1].quantity = 1
    /\ LET lines == SlipLines(files[1])
           n     == Len(lines)
       IN  /\ n > 12
           /\ SkuValue(lines[n]) # ""
           /\ lines[n - 11] = "3"
           /\ \A j \in (n - 10)..(n - 1) : ~IsIntegerLine(lines[j])

RowProductType(r) == IF program = "app" THEN r.Product_Type ELSE r.product_type

RowColor(r) == IF program = "app" THEN r.Towel_Color ELSE r.color

\* the keys of the prefix table named by the claim
ClaimedPrefixes == {"Set-6Pcs", "Set-3Pcs", "HT-2Pcs", "BT-2Pcs", "BS-1Pcs"}

\* the label the decoder's own table gives a prefix
TableLabel(P) ==
    IF program = "app" THEN DictGetOr(SKU_TYPE_MAP, P, "")
    ELSE DictGetOr(product_map, P, "")

\* C9: for each key P of the prefix table and each colour C, the record of the
\* SKU "P-C" has the table label of P as product type and C as colour, in
\* app.py (derive_type_and_color_from_sku) and in main_app.py
\* (derive_product_type_and_color)
C9_KnownPrefixDecoded ==
    (Parsed("app") \/ Parsed("main_app")) =>
        \A k \in 1..Len(rows) : \A P \in ClaimedPrefixes :
            startswith(RowSku(rows[k]), P \o "-") =>
                /\ RowProductType(rows[k]) = TableLabel(P)
                /\ RowColor(rows[k]) = From(RowSku(rows[k]), Len(P) + 2)

\* the hyphen-separated tokens of a SKU
Tokens(sku) == split(sku, "-")

\* the prefix of a SKU: its first two tokens, or its only token
OwnPrefix(sku) ==
    IF Len(Tokens(sku)) >= 2 THEN Tokens(sku)[1] \o "-" \o Tokens(sku)[2] ELSE sku

\* the prefix as app.py looks it up: 2PCS and 1PCS rewritten 2Pcs and 1Pcs
NormalizedPrefix(sku) == replace(replace(OwnPrefix(sku), "2PCS", "2Pcs"), "1PCS", "1Pcs")

\* the SKU's prefix is in no prefix table of the program that decodes it:
\* towel_parser.py asks whether the SKU starts with a key of PRODUCT_MAP, app.py
\* whether the normalized prefix is a key of SKU_TYPE_MAP
UnknownPrefix(sku) ==
    IF program = "towel_parser"
    THEN \A n \in 1..Len(PRODUCT_MAP) : ~startswith(sku, PRODUCT_MAP[n].key)
    ELSE \A n \in 1..Len(SKU_TYPE_MAP) : SKU_TYPE_MAP[n][1] # NormalizedPrefix(sku)

\* C10: a run of towel_parser.py or app.py ends with its records, every SKU
\* line yields an item, and a SKU with an unknown
\* prefix gets its own prefix as product-type label (with an empty piece list
\* in towel_parser.py)
C10_UnknownPrefixOwnLabel ==
    (Ran("app") \/ Parsed("towel_parser")) =>
        /\ phase = "parsed"
        /\ LET exp == ExpectedItems(SlipLines(files[1]))
           IN  /\ Len(rows) = Len(exp)
               /\ \A k \in 1..Len(exp) :
                      UnknownPrefix(exp[k].sku) =>
                          /\ RowSku(rows[k]) = exp[k].sku
                          /\ RowProductType(rows[k]) = OwnPrefix(exp[k].sku)
                          /\ program = "towel_parser" =>
                                 guess_product_type(parse_sku_color(exp[k].sku)[1])[2] = << >>

\* the expected piece names towel_parser.py derives for a SKU
ExpectedPieces(sku) == guess_product_type(parse_sku_color(sku)[1])[2]

\* C11: two items whose SKUs differ only in "PCS" being written for "Pcs" have
\* the same product type and the same colour, and in towel_parser.py the same
\* expected piece names
C11_PcsCaseNormalized ==
    (Parsed("app") \/ Parsed("towel_parser")) =>
        \A j, k \in 1..Len(rows) :
            RowSku(rows[j]) = replace(RowSku(rows[k]), "PCS", "Pcs") =>
                /\ RowProductType(rows[j]) = RowProductType(rows[k])
                /\ RowColor(rows[j]) = RowColor(rows[k])
                /\ program = "towel_parser" =>
                       ExpectedPieces(rows[j].sku) = ExpectedPieces(rows[k].sku)

\* C12: the colour of an item whose SKU starts with a key P of the prefix table
\* is the whole of the SKU after "P-", trimmed, hyphens and spaces included, in
\* all three programs
C12_ColourIsWholeRemainder ==
    phase = "parsed" =>
        \A k \in 1..Len(rows) : \A P \in ClaimedPrefixes :
            startswith(RowSku(rows[k]), P \o "-") =>
                RowColor(rows[k]) = strip(From(RowSku(rows[k]), Len(P) + 2))

\* the value a chunk gives a label: the text after the first colon of the first
\* line of lines[a..b] that starts with the label (in any case), trimmed; ""
\* when no line does
LabelValue(lines, a, b, label) ==
    LET N == {n \in a..b : istartswith(strip(lines[n]), label)}
        value(s) == IF find(s, ":", 1) = 0 THEN s ELSE strip(From(s, find(s, ":", 1) + 1))
    IN  IF N = {} THEN "" ELSE value(strip(lines[Min(N)]))

\* the raw thread colour of a chunk: "Font Color", else "Thread Color"
ThreadRaw(lines, a, b) ==
    IF LabelValue(lines, a, b, "font color") # ""
    THEN LabelValue(lines, a, b, "font color")
    ELSE LabelValue(lines, a, b, "thread color")

IsColorKey(base) == \E n \in 1..Len(COLOR_ES) : COLOR_ES[n][1] = base

SpanishOf(base) == COLOR_ES[CHOOSE n \in 1..Len(COLOR_ES) : COLOR_ES[n][1] = base][2]

\* C13: a run of app.py ends with its records, and the thread colour of an
\* item whose raw thread colour is raw
\* is "" when raw is empty; otherwise, with base = raw without its "(#hex)"
\* annotations, trimmed, it is "<Spanish> (<base>)" when base is a key of
\* COLOR_ES and "<base> (<base>)" when it is not
C13_TranslateThreadColor ==
    Ran("app") =>
        /\ phase = "parsed"
        /\ LET lines == SlipLines(files[1])
               exp   == ExpectedItems(lines)
           IN  /\ Len(rows) = Len(exp)
               /\ \A k \in 1..Len(exp) :
                      LET raw  == ThreadRaw(lines, exp[k].line, ChunkEnd(lines, exp, k))
                          base == strip(sub_hex_tags(raw))
                      IN  rows[k].Thread_Color =
                              IF raw = "" THEN ""
                              ELSE IF IsColorKey(base)
                                   THEN SpanishOf(base) \o " (" \o base \o ")"
                                   ELSE base \o " (" \o base \o ")"

\* a raw colour name up to letter case and to leading, trailing and repeated
\* whitespace
NormalName(raw) == lower(collapse_ws(strip(sub_hex_tags(raw))))

\* the translation a record carries: the text before " (" of Thread_Color in
\* app.py, thread_color_es in main_app.py
Translation(r) ==
    IF program = "app"
    THEN IF find(r.Thread_Color, " (", 1) = 0 THEN r.Thread_Color
         ELSE Sub(r.Thread_Color, 1, find(r.Thread_Color, " (", 1) - 1)
    ELSE r.thread_color_es

\* C14: a run of app.py or main_app.py ends with its records, and two items
\* whose raw thread-colour names differ only in letter case or
\* in leading, trailing or repeated whitespace carry the same translation, in
\* app.py and in main_app.py
C14_CaseAndWhitespaceInsensitive ==
    (Ran("app") \/ Parsed("main_app")) =>
        /\ phase = "parsed"
        /\ LET lines == SlipLines(files[1])
               exp   == ExpectedItems(lines)
               name(k) == NormalName(ThreadRaw(lines, exp[k].line, ChunkEnd(lines, exp, k)))
           IN  /\ Len(rows) = Len(exp)
               /\ \A j, k \in 1..Len(exp) :
                      name(j) = name(k) => Translation(rows[j]) = Translation(rows[k])

\* the elements of a sequence
Range(seq) == {seq[n] : n \in 1..Len(seq)}

\* the keys of a customization map
Keys(d) == {d[n][1] : n \in 1..Len(d)}

\* C15: in towel_parser.py every key of the customization map of an item of a
\* structured product type (one with expected piece names) is one of the
\* expected piece names of that type
C15_KeysAreExpectedPieces ==
    Parsed("towel_parser") =>
        \A k \in 1..Len(rows) :
            ExpectedPieces(rows[k].sku) # << >> =>
                Keys(rows[k].customization) \subseteq Range(ExpectedPieces(rows[k].sku))

\* the piece anchor of a line "label: value": its label, "" for a line without
\* a colon
PieceOf(line) ==
    LET at(s, c) == IF c = 0 THEN "" ELSE strip(Sub(s, 1, c - 1))
    IN  at(strip(line), find(strip(line), ":", 1))

\* the value the last line of lines[a..b] with piece anchor P gives it
LastValue(lines, a, b, P) ==
    LET s == strip(lines[Max({n \in a..b : PieceOf(lines[n]) = P})])
    IN  strip(From(s, find(s, ":", 1) + 1))

\* the piece anchors of lines[a..b] that app.py captures
CapturedAnchors(lines, a, b) ==
    {PieceOf(lines[n]) : n \in {m \in a..b : (PieceOf(lines[m]) \o ":") \in Range(CUST_KEYS)}}

\* C16: a run of towel_parser.py or app.py ends with its records, and each
\* piece anchor of an item's chunk has a single entry in the item's
\* customization, carrying the value of the anchor's last occurrence: in
\* towel_parser.py the keys of the map are distinct and each has the last value
\* of its anchor; in app.py there is one customization line per captured anchor,
\* the line "<piece>: <last value>"
C16_OneEntryPerPieceLastWins ==
    (Parsed("towel_parser") \/ Ran("app")) =>
        /\ phase = "parsed"
        /\ LET lines == SlipLines(files[1])
               exp   == ExpectedItems(lines)
           IN  /\ Len(rows) = Len(exp)
               /\ \A k \in 1..Len(exp) :
                      LET a == exp[k].line
                          b == ChunkEnd(lines, exp, k)
                      IN  IF program = "towel_parser"
                          THEN \A n \in 1..Len(rows[k].customization) :
                                   /\ \A m \in 1..Len(rows[k].customization) :
                                          m # n => rows[k].customization[m][1]
                                                       # rows[k].customization[n][1]
                                   /\ rows[k].customization[n][2]
                                          = LastValue(lines, a, b, rows[k].customization[n][1])
                          ELSE /\ Len(rows[k].Customization_Lines)
                                      = Cardinality(CapturedAnchors(lines, a, b))
                               /\ \A P \in CapturedAnchors(lines, a, b) :
                                      (replace(replace(P, "First ", ""), "Second ", "")
                                           \o ": " \o LastValue(lines, a, b, P))
                                          \in Range(rows[k].Customization_Lines)

\* C17: a run of app.py ends with its records, and the font of an item is the
\* value of the first "Choose Your
\* Font" line of its chunk when that value is non-empty, otherwise the value of
\* the first "Embroidery Font" line, otherwise ""; its thread colour is the
\* translation of the value of the first "Font Color" line when non-empty,
\* otherwise of the first "Thread Color" line, otherwise ""; the order of the
\* lines in the chunk plays no part
C17_PrimaryLabelFirst ==
    Ran("app") =>
        /\ phase = "parsed"
        /\ LET lines == SlipLines(files[1])
               exp   == ExpectedItems(lines)
           IN  /\ Len(rows) = Len(exp)
               /\ \A k \in 1..Len(exp) :
                      LET a == exp[k].line
                          b == ChunkEnd(lines, exp, k)
                      IN  /\ rows[k].Font =
                                 IF LabelValue(lines, a, b, "choose your font") # ""
                                 THEN LabelValue(lines, a, b, "choose your font")
                                 ELSE LabelValue(lines, a, b, "embroidery font")
                          /\ rows[k].Thread_Color =
                                 IF LabelValue(lines, a, b, "font color") # ""
                                 THEN translate_thread_color(LabelValue(lines, a, b, "font color"))
                                 ELSE translate_thread_color(LabelValue(lines, a, b, "thread color"))

\* the first line among the w lines lines[a..a+w-1] that, trimmed, is the label
\* alone (in any case); 0 when there is none
LabelOnlyLine(lines, a, w, label) ==
    LET N == {n \in a..Min({a + w - 1, Len(lines)}) : lower(strip(lines[n])) = label}
    IN  IF N = {} THEN 0 ELSE Min(N)

\* the first non-empty line, trimmed, among the w lines that follow line n; ""
\* when n is 0 or all of them are empty
FollowingValue(lines, n, w) ==
    LET J == {j \in (n + 1)..Min({n + w, Len(lines)}) : strip(lines[j]) # ""}
    IN  IF n = 0 \/ J = {} THEN "" ELSE strip(lines[Min(J)])

DropTrailingCommas(s) ==
    Sub(s, 1, Max({n \in 0..Len(s) : n = 0 \/ SubSeq(s, n, n) # ","}))

\* C18 as claimed: in towel_parser.py the order date, shipping service and buyer
\* name of an item are each the first non-empty line among the lines of the
\* lookahead window (six lines, the label line and the five after it) of the
\* first label-only line of the order, and "" when that window holds only empty
\* lines or the order has no label-only line
C18_TwoLineProtocol ==
    Parsed("towel_parser") =>
        LET lines == SlipLines(files[1])
            exp   == ExpectedItems(lines)
            value(k, label) ==
                FollowingValue(lines, LabelOnlyLine(lines, exp[k].blk, Len(lines), label), 5)
        IN  /\ Len(rows) = Len(exp)
            /\ \A k \in 1..Len(exp) :
                   /\ rows[k].order_date = value(k, "order date:")
                   /\ rows[k].shipping_service = value(k, "shipping service:")
                   /\ rows[k].buyer_full_name = value(k, "ship to:")

\* C18 amended: in towel_parser.py the shipping service and buyer name of an
\* item are each the first non-empty line among the five lines after the first
\* label-only line of the order, the order date is that line without its
\* trailing commas, and each is "" when those lines are all empty or the order
\* has no label-only line
C18_TwoLineProtocolDateTrimmed ==
    Parsed("towel_parser") =>
        LET lines == SlipLines(files[1])
            exp   == ExpectedItems(lines)
            value(k, label) ==
                FollowingValue(lines, LabelOnlyLine(lines, exp[k].blk, Len(lines), label), 5)
        IN  /\ Len(rows) = Len(exp)
            /\ \A k \in 1..Len(exp) :
                   /\ rows[k].order_date = DropTrailingCommas(value(k, "order date:"))
                   /\ rows[k].shipping_service = value(k, "shipping service:")
                   /\ rows[k].buyer_full_name = value(k, "ship to:")

\* the order date is the fifth line after the label line, four empty lines
\* between, and the item carries it without its trailing comma
C18_Witness ==
    /\ Parsed("towel_parser")
    /\ SlipLines(files[1]) = <<"Order ID: 123-4567890-1234567", "Order Date:", "", "", "", "",
                               "Mon, Jan 5,", "SKU: Set-3Pcs-White">>
    /\ Len(rows) = 1
    /\ rows[1].order_date = "Mon, Jan 5"

\* the value of a label inside lines[a..b]: the first non-empty line, trimmed,
\* among the lines of lines[a..b] that are within five lines after the first
\* label-only line of lines[a..b]; "" when there is none
ValueWithin(lines, a, b, label) ==
    LET N == {n \in a..b : lower(strip(lines[n])) = label}
        J == {j \in (Min(N) + 1)..Min({Min(N) + 5, b}) : strip(lines[j]) # ""}
    IN  IF N = {} THEN "" ELSE IF J = {} THEN "" ELSE strip(lines[Min(J)])

\* C19: in towel_parser.py the order date, shipping service and buyer name of
\* an item are read from the lines of its own order block only: each is the
\* value its label has inside the block, the same for all items of the order,
\* and "" when the block has no anchor for it, whatever a following order holds
C19_MetadataOwnedByBlock ==
    Parsed("towel_parser") =>
        LET lines == SlipLines(files[1])
            exp   == ExpectedItems(lines)
        IN  /\ Len(rows) = Len(exp)
            /\ \A k \in 1..Len(exp) :
                   LET a == exp[k].blk
                       b == BlockEnd(lines, exp, k)
                   IN  /\ rows[k].order_date
                              = DropTrailingCommas(ValueWithin(lines, a, b, "order date:"))
                       /\ rows[k].shipping_service
                              = ValueWithin(lines, a, b, "shipping service:")
                       /\ rows[k].buyer_full_name = ValueWithin(lines, a, b, "ship to:")

\* the fields by which two items are duplicates: order id, SKU, font, thread
\* colour and customization
ItemKey(r) ==
    IF program = "app"
    THEN <<r.Order_ID, r.SKU, r.Font, r.Thread_Color, r.Customization_Lines>>
    ELSE <<r.order_id, r.sku, r.font, r.thread_color, r.customization>>

\* C20: the final record list of towel_parser.py and of app.py holds no two
\* duplicate items, duplicates having been merged into one record
C20_NoDuplicateItems ==
    (Parsed("towel_parser") \/ Parsed("app")) =>
        \A j, k \in 1..Len(rows) : j # k => ItemKey(rows[j]) # ItemKey(rows[k])

RECURSIVE SeqSum(_)
SeqSum(s) == IF s = << >> THEN 0 ELSE s[1] + SeqSum(Tail(s))

\* the sum of quantity over the records of a colour
ColourQuantity(c) ==
    SeqSum([n \in 1..Len(rows) |-> IF rows[n].color = c THEN rows[n].quantity ELSE 0])

\* the totals the summary reports for a colour, added up; 0 without a row
ColourTotal(c) ==
    SeqSum([n \in 1..Len(summary) |->
               IF summary[n]["Color"] = c
               THEN SeqSum([k \in 1..Len(SummaryColumns) |-> summary[n][SummaryColumns[k]]])
               ELSE 0])

\* C21: in main_app.py the totals the production summary reports for a colour
\* add up to the sum of quantity over the records of that colour, and listing
\* the records in another order gives the same summary
C21_SummaryIsSumPerColour ==
    Parsed("main_app") =>
        /\ \A n \in 1..Len(rows) : ColourTotal(rows[n].color) = ColourQuantity(rows[n].color)
        /\ \A p \in Permutations(1..Len(rows)) :
               production_summary([k \in 1..Len(rows) |-> rows[p[k]]]) = summary

\* the part of C21 that holds: the summary does not depend on the order of the records
C21_OrderIndependent ==
    Parsed("main_app") =>
        \A p \in Permutations(1..Len(rows)) :
            production_summary([k \in 1..Len(rows) |-> rows[p[k]]]) = summary

\* the records of file n of the batch parsed on its own, its failing pages empty
FileRecords(n) ==
    LET alone(f) == IF program = "app" THEN parse_pdfs_to_df(<<f>>) ELSE parse_pdfs(<<f>>)
    IN  alone(extracted(files, faults)[n])

\* the records of the files from n on, a file whose open fails giving none
RECURSIVE IsolatedRecords(_)
IsolatedRecords(n) ==
    IF n > Len(files) THEN << >>
    ELSE (IF <<n, 0>> \in faults THEN << >> ELSE FileRecords(n)) \o IsolatedRecords(n + 1)

\* C22: in app.py and main_app.py the parse of a batch ends without an exception
\* whatever extraction fails; a document whose extraction fails entirely gives
\* no records, every other document gives its records, and a page whose
\* extraction fails is read as empty text
C22_FailureIsolation ==
    (Ran("app") \/ Ran("main_app")) =>
        /\ phase = "parsed"
        /\ rows = IsolatedRecords(1)

\* the part of C22 that holds: main_app.py isolates the failure of a page
C22_IsolationWhereCaught ==
    (Ran("main_app") /\ ~open_fails(files, faults)) =>
        /\ phase = "parsed"
        /\ rows = IsolatedRecords(1)

\* lines[a..b] hold a "Customizations:" header
HasSection(lines, a, b) == \E n \in a..b : CUSTOMIZATIONS_HEADER_RE(strip(lines[n]))

\* C23: in towel_parser.py an item whose chunk, from its SKU anchor up to the
\* next SKU anchor or the end of the order block, has no "Customizations:"
\* section has empty font, thread colour and customization, never those of the
\* following item of the order
C23_CustomizationFromOwnChunk ==
    Parsed("towel_parser") =>
        LET lines == SlipLines(files[1])
            exp   == ExpectedItems(lines)
        IN  /\ Len(rows) = Len(exp)
            /\ \A k \in 1..Len(exp) :
                   ~HasSection(lines, exp[k].line, ChunkEnd(lines, exp, k)) =>
                       /\ rows[k].font = ""
                       /\ rows[k].thread_color = ""
                       /\ rows[k].customization = << >>

\* the value of the nearest integer line among the w lines before line n that
\* lie after the order anchor at line blk, 1 if there is none
OwnBlockInteger(lines, blk, n, w) ==
    LET J == {j \in (IF n - w > blk + 1 THEN n - w ELSE blk + 1)..(n - 1) :
                 IsIntegerLine(lines[j])}
    IN  IF J = {} THEN 1 ELSE int(strip(lines[Max(J)]))

\* C27: in towel_parser.py the backward quantity scan reads lines of the item's
\* own order block only: the quantity is the nearest integer line among the
\* lines of the window that follow the block's order anchor, 1 if none, and an
\* integer line ahead of the anchor never determines it
C27_QuantityScanStaysInBlock ==
    Parsed("towel_parser") =>
        LET lines == SlipLines(files[1])
            exp   == ExpectedItems(lines)
        IN  /\ Len(rows) = Len(exp)
            /\ \A k \in 1..Len(exp) :
                   rows[k].quantity
                       = OwnBlockInteger(lines, exp[k].blk, exp[k].line, QtyLookback)

\* the indices of the SKU anchor lines of a slip, in document order
SkuLineIndices(lines) == Sorted({n \in 1..Len(lines) : SkuValue(lines[n]) # ""})

\* C24: in main_app.py every order anchor line starts a new order: there is one
\* record per SKU line, in document order, and a record whose SKU line has an
\* order anchor before it carries the order id of the nearest such anchor,
\* wherever the anchors lie on the pages
C24_OrderOfNearestAnchor ==
    Parsed("main_app") =>
        LET lines == SlipLines(files[1])
            N     == SkuLineIndices(lines)
        IN  /\ Len(rows) = Len(N)
            /\ \A k \in 1..Len(N) :
                   LET A == {a \in 1..(N[k] - 1) : AnchorId(lines[a]) # ""}
                   IN  A # {} => rows[k].order_id = AnchorId(lines[Max(A)])

\* one record per SKU line, in document order (the part of C24 that holds)
C24_OneRecordPerSkuLine ==
    Parsed("main_app") =>
        LET lines == SlipLines(files[1])
            N     == SkuLineIndices(lines)
        IN  /\ Len(rows) = Len(N)
            /\ \A k \in 1..Len(N) : rows[k].sku = SkuValue(lines[N[k]])

\* the name a "Buyer Name: <name>" line gives, "" for any other line
BuyerValue(line) ==
    IF startswith(strip(line), "Buyer Name:") THEN strip(From(strip(line), 12)) ELSE ""

\* the buyer names found in the order block of the k-th expected item
BlockBuyers(lines, exp, k) ==
    {BuyerValue(lines[n]) : n \in exp[k].blk..BlockEnd(lines, exp, k)} \ {""}

\* C25: in main_app.py a record's buyer_name is a "Buyer Name" value of the
\* record's own order block, and empty when the block has none (the name of an
\* earlier order is not carried over); all items of an order have the same
\* buyer_name
C25_BuyerFromOwnBlock ==
    Parsed("main_app") =>
        LET lines == SlipLines(files[1])
            exp   == ExpectedItems(lines)
        IN  /\ Len(rows) = Len(exp)
            /\ \A k \in 1..Len(exp) :
                   IF BlockBuyers(lines, exp, k) = {}
                   THEN rows[k].buyer_name = ""
                   ELSE rows[k].buyer_name \in BlockBuyers(lines, exp, k)
            /\ \A j, k \in 1..Len(exp) :
                   exp[j].blk = exp[k].blk => rows[j].buyer_name = rows[k].buyer_name

\* the n of a leading-quantity line "<n> <product word>...", 0 for any other line
LeadingQuantity(line) ==
    IF LEADING_QTY_RE(line) = NoMatch THEN 0 ELSE int(LEADING_QTY_RE(line)[1])

\* the quantity the protocol gives the SKU line n of the block opened at line
\* blk: that of the last leading-quantity line of the block ahead of n when no
\* SKU line lies between the two, 1 otherwise
PendingQuantity(lines, blk, n) ==
    LET L == {j \in (blk + 1)..(n - 1) : LeadingQuantity(lines[j]) > 0}
        last(j) == IF \E m \in (j + 1)..(n - 1) : SkuValue(lines[m]) # ""
                   THEN 1 ELSE LeadingQuantity(lines[j])
    IN  IF L = {} THEN 1 ELSE last(Max(L))

\* C28: in main_app.py a leading-quantity line sets the quantity of the next
\* SKU anchor only: an item has the quantity of the leading-quantity line of
\* its own order that is still pending at its SKU line, and quantity 1 when
\* there is none, the value having been consumed by an earlier item or left
\* over from the order before
C28_LeadingQuantityProtocol ==
    Parsed("main_app") =>
        LET lines == SlipLines(files[1])
            exp   == ExpectedItems(lines)
        IN  /\ Len(rows) = Len(exp)
            /\ \A k \in 1..Len(exp) :
                   rows[k].quantity = PendingQuantity(lines, exp[k].blk, exp[k].line)

\* the part of C28 that holds: the protocol when each order starts a page
C28_ProtocolOrderPerPage ==
    (Parsed("main_app") /\ Len(files[1].pages) = 2) =>
        LET lines == SlipLines(files[1])
            exp   == ExpectedItems(lines)
        IN  /\ Len(rows) = Len(exp)
            /\ \A k \in 1..Len(exp) :
                   rows[k].quantity = PendingQuantity(lines, exp[k].blk, exp[k].line)

\* the customization entries of an item with a non-empty value, as (piece,
\* value) pairs in the canonical piece order of the item's type
CanonicalEntries(it) ==
    LET pairs(sequence) ==
            SelectSeq([k \in 1..Len(sequence) |->
                          <<sequence[k], DictGetOr(it.customization, sequence[k], "")>>],
                      LAMBDA pv : pv[2] # "")
    IN  pairs(DictGetOr(order_map, it.product_type, << >>))

\* C26: in towel_parser.py, for every item of a structured product type, the
\* (piece, value) pairs make_labels_pdf rebuilds from the "Customization" string
\* of the table are the item's customization entries with a non-empty value, in
\* canonical piece order, each value with its own piece
C26_CustomizationRoundTrip ==
    Parsed("towel_parser") =>
        /\ Len(labels) = Len(rows)
        /\ \A k \in 1..Len(rows) :
               DictGetOr(order_map, rows[k].product_type, << >>) # << >> =>
                   labels[k].custom_lines = CanonicalEntries(rows[k])

\* the part of C26 that holds: the values on the label are the non-empty values
\* of the item, in canonical piece order
C26_ValuesInCanonicalOrder ==
    Parsed("towel_parser") =>
        /\ Len(labels) = Len(rows)
        /\ \A k \in 1..Len(rows) :
               DictGetOr(order_map, rows[k].product_type, << >>) # << >> =>
                   [n \in 1..Len(labels[k].custom_lines) |-> labels[k].custom_lines[n][2]]
                       = [n \in 1..Len(CanonicalEntries(rows[k])) |->
                             CanonicalEntries(rows[k])[n][2]]

====
